---------------------------- MODULE Spec2Model ----------------------------
(***************************************************************************)
(* Model of quimica.js: the chemical formula / equation parser, the        *)
(* balance validator and the stoichiometry engine, and of the page script  *)
(* that drives them (validate, reactant form, calculate, status message).  *)
(*                                                                         *)
(* Texts are sequences of one-character strings.  JavaScript numbers are   *)
(* modelled as exact rationals extended with NaN and +/-Infinity (record   *)
(* [k, n, d]; d = 0 marks the special values), so floating-point rounding  *)
(* is abstracted away.  A call either returns or throws: every modelled    *)
(* function yields [tipo |-> "return", valor |-> v] or                     *)
(* [tipo |-> "throw", error |-> e].  A local constant of the source that   *)
(* is read several times is passed on as the parameter of a continuation   *)
(* operator.                                                               *)
(***************************************************************************)
EXTENDS Integers, Sequences, FiniteSets, TLC

VARIABLES
    formula,            \* input text of the formula-level operations
    ecuacion,           \* input text of the equation-level operations
    datosReactivos,     \* input list of reactant records
    datosProductoReal,  \* input actual-product record (or null)
    op,                 \* the operation that was called ("" before any call)
    ret,                \* what the call returned or threw
    estadoFormula,      \* parsearFormula's loop state: i, pila, resultado
    vueltas,            \* iterations of parsearFormula's loop run so far
    inputEcuacion,      \* inputEcuacion.value
    ecuacionActual,     \* <<>> for null, or <<text>>
    ecuacionParseada,   \* <<>> for null, or <<parsed equation>>
    mensajeEstado,      \* the status element: textContent, tipo, display
    temporizadores,     \* pending setTimeout callbacks of mostrarMensaje
    seccionReactivos,   \* seccionReactivos.style.display
    contenedorReactivos,    \* <<>> when empty, or <<the generated form>>
    seccionResultados,  \* seccionResultados.style.display
    contenedorResultados    \* <<>> when empty, or <<what was rendered>>

vars == <<formula, ecuacion, datosReactivos, datosProductoReal, op, ret, estadoFormula, vueltas, inputEcuacion, ecuacionActual, ecuacionParseada, mensajeEstado, temporizadores, seccionReactivos, contenedorReactivos, seccionResultados, contenedorResultados>>

----------------------------------------------------------------------------
(* Characters *)

Digitos == {"0", "1", "2", "3", "4", "5", "6", "7", "8", "9"}

Mayusculas == {"A", "B", "C", "D", "E", "F", "G", "H", "I", "J", "K", "L", "M",
               "N", "O", "P", "Q", "R", "S", "T", "U", "V", "W", "X", "Y", "Z"}

Minusculas == {"a", "b", "c", "d", "e", "f", "g", "h", "i", "j", "k", "l", "m",
               "n", "o", "p", "q", "r", "s", "t", "u", "v", "w", "x", "y", "z"}

Espacios == {" "}

ValorDigito(c) ==
    CASE c = "0" -> 0 [] c = "1" -> 1 [] c = "2" -> 2 [] c = "3" -> 3
      [] c = "4" -> 4 [] c = "5" -> 5 [] c = "6" -> 6 [] c = "7" -> 7
      [] c = "8" -> 8 [] c = "9" -> 9

\* parseInt of a run of decimal digits
RECURSIVE parseInt(_)
parseInt(ds) ==
    IF Len(ds) = 0 THEN 0
    ELSE 10 * parseInt(SubSeq(ds, 1, Len(ds) - 1)) + ValorDigito(ds[Len(ds)])

\* index just past the run of characters of class `clase` that starts at i
RECURSIVE FinDeRacha(_, _, _)
FinDeRacha(s, i, clase) ==
    IF i <= Len(s) /\ s[i] \in clase THEN FinDeRacha(s, i + 1, clase) ELSE i

\* texto ? parseInt(texto) : 1
NumeroOUno(ds) == IF Len(ds) = 0 THEN 1 ELSE parseInt(ds)

----------------------------------------------------------------------------
(* Results and errors *)

Return(v) == [tipo |-> "return", valor |-> v]
Throw(e)  == [tipo |-> "throw", error |-> e]

\* TypeError raised by reading a property of undefined
TypeErrorUndefined(prop) ==
    [clase |-> "TypeError", texto |-> "Cannot read properties of undefined",
     detalle |-> <<prop>>]

\* TypeError raised by reading a property of null
TypeErrorNull(prop) ==
    [clase |-> "TypeError", texto |-> "Cannot read properties of null",
     detalle |-> <<prop>>]

\* new Error(message); a message is a fixed text and the symbols it names
Error(texto, detalle) ==
    [clase |-> "Error", texto |-> texto, detalle |-> detalle]

\* error.message
Mensaje(e) == [texto |-> e.texto, detalle |-> e.detalle]

----------------------------------------------------------------------------
(* Element-count objects: own keys in insertion order *)

Claves(m) == [k \in 1..Len(m) |-> m[k].el]

Tiene(m, e) == \E k \in 1..Len(m) : m[k].el = e

\* m[e], for a key that is present
Valor(m, e) == m[CHOOSE k \in 1..Len(m) : m[k].el = e].n

\* m[e] = v: an existing key keeps its place, a new key goes last
Asignar(m, e, v) ==
    IF Tiene(m, e)
    THEN [k \in 1..Len(m) |-> IF m[k].el = e THEN [el |-> e, n |-> v] ELSE m[k]]
    ELSE Append(m, [el |-> e, n |-> v])

\* if (m[e]) m[e] += v; else m[e] = v;
SumarOAsignar(m, e, v) ==
    IF Tiene(m, e) /\ Valor(m, e) # 0
    THEN Asignar(m, e, Valor(m, e) + v)
    ELSE Asignar(m, e, v)

\* the fold that overwrites the entries the frame below already has
RECURSIVE PlegarGrupoMutado(_, _, _, _)
PlegarGrupoMutado(grupoActual, grupo, multiplicador, k) ==
    IF k > Len(grupo) THEN grupoActual
    ELSE PlegarGrupoMutado(Asignar(grupoActual, grupo[k].el,
                                   grupo[k].n * multiplicador),
                           grupo, multiplicador, k + 1)

\* the for-in loop that folds a popped group into the frame below it
RECURSIVE PlegarGrupo(_, _, _, _)
PlegarGrupo(grupoActual, grupo, multiplicador, k) ==
    IF k > Len(grupo) THEN grupoActual
    ELSE PlegarGrupo(SumarOAsignar(grupoActual, grupo[k].el,
                                   grupo[k].n * multiplicador),
                     grupo, multiplicador, k + 1)

----------------------------------------------------------------------------
(* parsearFormula: the scanning loop, one iteration per step.              *)
(* i is 1-based.  pila is the stack; resultado is the object returned:     *)
(* it is the bottom frame of the stack while enBase holds, and is no       *)
(* longer written once an unmatched ")" has popped it.                     *)

EstadoInicialFormula ==
    [i |-> 1, pila |-> << <<>> >>, resultado |-> <<>>, enBase |-> TRUE,
     error |-> <<>>]

\* write frame g at the top of the stack
EscribirTope(st, g) ==
    [st EXCEPT !.pila = [st.pila EXCEPT ![Len(st.pila)] = g],
               !.resultado = IF st.enBase /\ Len(st.pila) = 1 THEN g
                             ELSE st.resultado]

\* two frames pushed for one "("
AbrirParentesisMutado(f, st) ==
    [st EXCEPT !.i = st.i + 1, !.pila = Append(Append(st.pila, <<>>), <<>>)]

\* caracter === '('
AbrirParentesis(f, st) ==
    [st EXCEPT !.i = st.i + 1, !.pila = Append(st.pila, <<>>)]

\* the multiplier never read
MultiplicadorDeGrupoMutado(f, i) == 1

\* the digits after the ")" at i, or 1
MultiplicadorDeGrupo(f, i) ==
    NumeroOUno(SubSeq(f, i + 1, FinDeRacha(f, i + 1, Digitos) - 1))

\* pila.pop() and the fold, with i already past the multiplier (j)
PopYPlegar(st, j, multiplicador) ==
    IF Len(st.pila) = 0
    THEN \* pop() of an empty array: grupo is undefined, nothing to fold
         [st EXCEPT !.i = j]
    ELSE IF Len(st.pila) = 1
    THEN \* grupoActual is undefined: reading a key of it throws
         [st EXCEPT !.i = j, !.pila = <<>>, !.enBase = FALSE,
                    !.error = IF Len(st.pila[1]) = 0 THEN <<>>
                              ELSE <<TypeErrorUndefined(st.pila[1][1].el)>>]
    ELSE EscribirTope(
             [st EXCEPT !.i = j,
                        !.pila = SubSeq(st.pila, 1, Len(st.pila) - 1)],
             PlegarGrupo(st.pila[Len(st.pila) - 1], st.pila[Len(st.pila)],
                         multiplicador, 1))

\* caracter === ')'
CerrarParentesis(f, st) ==
    PopYPlegar(st, FinDeRacha(f, st.i + 1, Digitos),
               MultiplicadorDeGrupo(f, st.i))

\* the digits in f[desde .. hasta-1], or 1
Subindice(f, desde, hasta) == NumeroOUno(SubSeq(f, desde, hasta - 1))

\* add the token to the current group, with i already past the token (k)
AgregarElemento(st, elemento, k, subindice) ==
    IF Len(st.pila) = 0
    THEN [st EXCEPT !.i = k, !.error = <<TypeErrorUndefined(elemento)>>]
    ELSE EscribirTope([st EXCEPT !.i = k],
                      SumarOAsignar(st.pila[Len(st.pila)], elemento,
                                    subindice))

\* the token's letters end before j, its subscript before k
LeerSubindice(f, st, j, k) ==
    AgregarElemento(st, SubSeq(f, st.i, j - 1), k, Subindice(f, j, k))

LeerMinusculas(f, st, j) ==
    LeerSubindice(f, st, j, FinDeRacha(f, j, Digitos))

\* /[A-Z]/.test(caracter)
LeerElemento(f, st) ==
    LeerMinusculas(f, st, FinDeRacha(f, st.i + 1, Minusculas))

\* one iteration of the while loop
PasoFormula(f, st) ==
    IF f[st.i] = "(" THEN AbrirParentesis(f, st)
    ELSE IF f[st.i] = ")" THEN CerrarParentesis(f, st)
    ELSE IF f[st.i] \in Mayusculas THEN LeerElemento(f, st)
    ELSE [st EXCEPT !.i = st.i + 1]

RECURSIVE CorrerFormula(_, _)
CorrerFormula(f, st) ==
    IF Len(st.error) > 0 THEN Throw(st.error[1])
    ELSE IF st.i <= Len(f) THEN CorrerFormula(f, PasoFormula(f, st))
    ELSE Return(st.resultado)

parsearFormula(f) == CorrerFormula(f, EstadoInicialFormula)

----------------------------------------------------------------------------
(* Text helpers: String.prototype.trim, split and replace *)

RECURSIVE trim(_)
trim(s) ==
    IF Len(s) = 0 THEN s
    ELSE IF s[1] \in Espacios THEN trim(SubSeq(s, 2, Len(s)))
    ELSE IF s[Len(s)] \in Espacios THEN trim(SubSeq(s, 1, Len(s) - 1))
    ELSE s

EmpiezaCon(s, i, sep) ==
    /\ i + Len(sep) - 1 <= Len(s)
    /\ SubSeq(s, i, i + Len(sep) - 1) = sep

\* s.split(sep), sep a non-empty text: the pieces between the occurrences
\* of sep, found left to right without overlap
RECURSIVE SplitDesde(_, _, _, _)
SplitDesde(s, sep, inicio, i) ==
    IF i > Len(s) THEN << SubSeq(s, inicio, Len(s)) >>
    ELSE IF EmpiezaCon(s, i, sep)
         THEN << SubSeq(s, inicio, i - 1) >>
              \o SplitDesde(s, sep, i + Len(sep), i + Len(sep))
         ELSE SplitDesde(s, sep, inicio, i + 1)

split(s, sep) == SplitDesde(s, sep, 1, 1)

Flecha == <<"-", ">">>

FlechaUnicode == "→"

\* ecuacion.replace(/→/g, '->').replace(/=/g, '->')
RECURSIVE NormalizarFlecha(_)
NormalizarFlecha(s) ==
    IF Len(s) = 0 THEN s
    ELSE (IF s[1] \in {FlechaUnicode, "="} THEN Flecha ELSE <<s[1]>>)
         \o NormalizarFlecha(Tail(s))

----------------------------------------------------------------------------
(* parsearCompuesto, parsearEcuacion *)

\* the leading digits of the trimmed term, or 1
CoeficienteEscrito(t) ==
    NumeroOUno(SubSeq(t, 1, FinDeRacha(t, 1, Digitos) - 1))

\* the return statement, once the formula is parsed
CompuestoCon(t, f, elementos) ==
    IF elementos.tipo = "throw" THEN elementos
    ELSE Return([coeficiente |-> CoeficienteEscrito(t), formula |-> f,
                 elementos |-> elementos.valor])

\* const formula = compuesto.slice(i)
CompuestoDesde(t, f) == CompuestoCon(t, f, parsearFormula(f))

\* the term once trimmed
CompuestoRecortado(t) ==
    CompuestoDesde(t, SubSeq(t, FinDeRacha(t, 1, Digitos), Len(t)))

parsearCompuesto(compuesto) == CompuestoRecortado(trim(compuesto))

\* partes.map(parsearCompuesto): the first term that throws ends the map
RECURSIVE ParsearTerminos(_, _, _)
RECURSIVE SeguirTerminos(_, _, _, _)
ParsearTerminos(partes, k, hechos) ==
    IF k > Len(partes) THEN Return(hechos)
    ELSE SeguirTerminos(partes, k, hechos, parsearCompuesto(partes[k]))

SeguirTerminos(partes, k, hechos, c) ==
    IF c.tipo = "throw" THEN c
    ELSE ParsearTerminos(partes, k + 1, Append(hechos, c.valor))

ErrorFlecha ==
    Error("La ecuación debe tener exactamente una flecha de reacción (-> o →)", <<>>)

\* the return statement, once both sides are parsed
EcuacionCon(reactivos, productos) ==
    IF reactivos.tipo = "throw" THEN reactivos
    ELSE IF productos.tipo = "throw" THEN productos
    ELSE Return([reactivos |-> reactivos.valor,
                 productos |-> productos.valor])

\* ladoReactivos.split('+').map(...), ladoProductos.split('+').map(...)
ParsearLados(ladoReactivos, ladoProductos) ==
    EcuacionCon(ParsearTerminos(split(ladoReactivos, <<"+">>), 1, <<>>),
                ParsearTerminos(split(ladoProductos, <<"+">>), 1, <<>>))

\* partes.length !== 2 is the only check made on the split
PartesAceptadasMutado(partes) ==
    Len(partes) = 2 /\ Len(partes[1]) > 0 /\ Len(partes[2]) > 0
PartesAceptadas(partes) == Len(partes) = 2

EcuacionDePartes(partes) ==
    IF ~PartesAceptadas(partes) THEN Throw(ErrorFlecha)
    ELSE ParsearLados(trim(partes[1]), trim(partes[2]))

parsearEcuacion(e) == EcuacionDePartes(split(NormalizarFlecha(e), Flecha))

----------------------------------------------------------------------------
(* contarAtomos, verificarBalance *)

\* the inner for-in loop of contarAtomos
RECURSIVE ContarElementos(_, _, _, _)
ContarElementos(conteo, elementos, coeficiente, k) ==
    IF k > Len(elementos) THEN conteo
    ELSE ContarElementos(
             SumarOAsignar(conteo, elementos[k].el,
                           elementos[k].n * coeficiente),
             elementos, coeficiente, k + 1)

\* the outer loop of contarAtomos
RECURSIVE ContarDesde(_, _, _)
ContarDesde(conteo, compuestos, k) ==
    IF k > Len(compuestos) THEN conteo
    ELSE ContarDesde(ContarElementos(conteo, compuestos[k].elementos,
                                     compuestos[k].coeficiente, 1),
                     compuestos, k + 1)

RECURSIVE ContarSinCoeficiente(_, _, _)
ContarSinCoeficiente(conteo, compuestos, k) ==
    IF k > Len(compuestos) THEN conteo
    ELSE ContarSinCoeficiente(
             ContarElementos(conteo, compuestos[k].elementos, 1, 1),
             compuestos, k + 1)

contarAtomosMutado(compuestos) == ContarSinCoeficiente(<<>>, compuestos, 1)
contarAtomos(compuestos) == ContarDesde(<<>>, compuestos, 1)

\* new Set([...a, ...b]) in insertion order
RECURSIVE UnionOrdenada(_, _)
UnionOrdenada(a, b) ==
    IF Len(b) = 0 THEN a
    ELSE UnionOrdenada(IF \E k \in 1..Len(a) : a[k] = b[1] THEN a
                       ELSE Append(a, b[1]),
                       Tail(b))

\* conteo[e] || 0
ValorOCero(conteo, e) == IF Tiene(conteo, e) THEN Valor(conteo, e) ELSE 0

\* detalles[elemento] = { reactivos, productos, balanceado }
DetalleDe(e, enReactivos, enProductos) ==
    [el |-> e, reactivos |-> enReactivos, productos |-> enProductos,
     balanceado |-> enReactivos = enProductos]

\* the loop over the elements: balanceada turns false at any difference
ResultadoBalance(detalles) ==
    Return([balanceada |-> \A k \in 1..Len(detalles) :
                               detalles[k].reactivos = detalles[k].productos,
            detalles |-> detalles])

BalanceDeElementos(elementos, atomosReactivos, atomosProductos) ==
    ResultadoBalance(
        [k \in 1..Len(elementos) |->
            DetalleDe(elementos[k],
                      ValorOCero(atomosReactivos, elementos[k]),
                      ValorOCero(atomosProductos, elementos[k]))])

BalanceDeConteos(atomosReactivos, atomosProductos) ==
    BalanceDeElementos(UnionOrdenada(Claves(atomosReactivos),
                                     Claves(atomosProductos)),
                       atomosReactivos, atomosProductos)

BalanceDeParseada(parseada) ==
    IF parseada.tipo = "throw" THEN parseada
    ELSE BalanceDeConteos(contarAtomos(parseada.valor.reactivos),
                          contarAtomos(parseada.valor.productos))

verificarBalance(e) == BalanceDeParseada(parsearEcuacion(e))

----------------------------------------------------------------------------
(* The Element Table: symbol -> atomic mass, in thousandths of g/mol *)

ELEMENTOS ==
    (<<"H">> :> [masaAtomica |-> 1008, nombre |-> "Hidrogeno"]) @@
    (<<"H", "e">> :> [masaAtomica |-> 4003, nombre |-> "Helio"]) @@
    (<<"C">> :> [masaAtomica |-> 12011, nombre |-> "Carbono"]) @@
    (<<"N">> :> [masaAtomica |-> 14007, nombre |-> "Nitrogeno"]) @@
    (<<"O">> :> [masaAtomica |-> 15999, nombre |-> "Oxigeno"]) @@
    (<<"N", "a">> :> [masaAtomica |-> 22990, nombre |-> "Sodio"]) @@
    (<<"C", "l">> :> [masaAtomica |-> 35453, nombre |-> "Cloro"])

\* ELEMENTOS[simbolo] is truthy
EnTabla(simbolo) == simbolo \in DOMAIN ELEMENTOS

----------------------------------------------------------------------------
(* validarElementos, validarEcuacion *)

\* the symbols pushed to invalidos, in the order of the parsed keys
RECURSIVE Invalidos(_, _)
Invalidos(elementos, k) ==
    IF k > Len(elementos) THEN <<>>
    ELSE (IF EnTabla(elementos[k].el) THEN <<>> ELSE <<elementos[k].el>>)
         \o Invalidos(elementos, k + 1)

ResultadoElementos(invalidos) ==
    Return([valida |-> Len(invalidos) = 0, elementosInvalidos |-> invalidos])

ElementosDeParseada(elementos) ==
    IF elementos.tipo = "throw" THEN elementos
    ELSE ResultadoElementos(Invalidos(elementos.valor, 1))

validarElementos(f) == ElementosDeParseada(parsearFormula(f))

\* { valida: false, error }; error is <<>> for null, <<message>> otherwise
Invalida(mensaje) == [valida |-> FALSE, error |-> <<mensaje>>]

\* the loop over [...reactivos, ...productos]; stops at the first failure
RECURSIVE ValidarCompuestos(_, _)
RECURSIVE SeguirValidando(_, _, _)
ValidarCompuestos(compuestos, k) ==
    IF k > Len(compuestos) THEN Return([valida |-> TRUE, error |-> <<>>])
    ELSE SeguirValidando(compuestos, k,
                         validarElementos(compuestos[k].formula))

\* the loop without the early return: the last offending compound wins
SeguirValidandoMutado(compuestos, k, validacion) ==
    IF validacion.tipo = "throw" THEN validacion
    ELSE IF /\ ~validacion.valor.valida
            /\ ValidarCompuestos(compuestos, k + 1).valor.valida
    THEN Return(Invalida([texto |-> "Elemento(s) no reconocido(s): ",
                          detalle |-> validacion.valor.elementosInvalidos]))
    ELSE ValidarCompuestos(compuestos, k + 1)

SeguirValidando(compuestos, k, validacion) ==
    IF validacion.tipo = "throw" THEN validacion
    ELSE IF ~validacion.valor.valida
    THEN Return(Invalida([texto |-> "Elemento(s) no reconocido(s): ",
                          detalle |-> validacion.valor.elementosInvalidos]))
    ELSE ValidarCompuestos(compuestos, k + 1)

\* the body of the try block, once the equation is parsed
ValidarParseada(parseada) ==
    IF parseada.tipo = "throw" THEN parseada
    ELSE IF Len(parseada.valor.reactivos) = 0
    THEN Return(Invalida(
             [texto |-> "La ecuación debe tener al menos un reactivo.",
              detalle |-> <<>>]))
    ELSE IF Len(parseada.valor.productos) = 0
    THEN Return(Invalida(
             [texto |-> "La ecuación debe tener al menos un producto.",
              detalle |-> <<>>]))
    ELSE ValidarCompuestos(parseada.valor.reactivos
                           \o parseada.valor.productos, 1)

\* catch (error) { return { valida: false, error: error.message } }
Atrapar(intento) ==
    IF intento.tipo = "throw" THEN Return(Invalida(Mensaje(intento.error)))
    ELSE intento

validarEcuacion(e) == Atrapar(ValidarParseada(parsearEcuacion(e)))

----------------------------------------------------------------------------
(* JavaScript numbers: [k |-> "num", n, d] is n/d in lowest terms with     *)
(* d > 0; d = 0 marks NaN (n = 0), Infinity (n = 1) and -Infinity (n = -1).*)
(* [k |-> "undef"] is the value undefined, [k |-> "null"] the value null.  *)

Abs(x) == IF x < 0 THEN -x ELSE x
Signo(x) == IF x < 0 THEN -1 ELSE IF x > 0 THEN 1 ELSE 0

RECURSIVE MCD(_, _)
MCD(a, b) == IF b = 0 THEN a ELSE MCD(b, a % b)

Reducir(n, d, g) ==
    [k |-> "num", n |-> Signo(d) * (n \div g), d |-> Abs(d) \div g]

Num(n, d) ==
    IF d = 0 THEN [k |-> "num", n |-> Signo(n), d |-> 0]
    ELSE Reducir(n, d, MCD(Abs(n), Abs(d)))

Entero(n) == Num(n, 1)
NaN == Num(0, 0)
Infinity == Num(1, 0)
Undefined == [k |-> "undef", n |-> 0, d |-> 0]
Null == [k |-> "null", n |-> 0, d |-> 0]

EsNaN(a) == a.k = "num" /\ a.d = 0 /\ a.n = 0

\* ToNumber of a number or undefined: undefined becomes NaN
ANumero(a) == IF a.k = "undef" THEN NaN ELSE a

\* a is falsy: undefined, 0 or NaN
EsFalsy(a) == a.k = "undef" \/ a.n = 0

MulNum(a, b) == Num(a.n * b.n, a.d * b.d)
Mul(x, y) == MulNum(ANumero(x), ANumero(y))

DivNum(a, b) ==
    IF b.d = 0 THEN (IF b.n = 0 \/ a.d = 0 THEN NaN ELSE Entero(0))
    ELSE Num(a.n * b.d * (IF b.n < 0 THEN -1 ELSE 1), a.d * Abs(b.n))
Div(x, y) == DivNum(ANumero(x), ANumero(y))

SumarNum(a, b) ==
    IF a.d = 0 /\ b.d = 0 THEN (IF a = b THEN a ELSE NaN)
    ELSE Num(a.n * b.d + b.n * a.d, a.d * b.d)
Sumar(x, y) == SumarNum(ANumero(x), ANumero(y))

Opuesto(a) == [a EXCEPT !.n = -a.n]
Restar(x, y) == SumarNum(ANumero(x), Opuesto(ANumero(y)))

\* x < y (false when either is NaN)
MenorNum(a, b) ==
    IF EsNaN(a) \/ EsNaN(b) THEN FALSE
    ELSE IF a.d = 0 /\ b.d = 0 THEN a.n < b.n
    ELSE a.n * b.d < b.n * a.d
Menor(x, y) == MenorNum(ANumero(x), ANumero(y))

\* x === y
IgualEstricto(x, y) == x.k = y.k /\ ~EsNaN(x) /\ x = y

----------------------------------------------------------------------------
(* calcularMasaMolar, masaAMoles, molesAMasa *)

ErrorElemento(simbolo) == Error("Elemento no reconocido: ", <<simbolo>>)

\* ELEMENTOS[simbolo].masaAtomica, in g/mol
MasaAtomica(simbolo) == Num(ELEMENTOS[simbolo].masaAtomica, 1000)

\* the loop without the table check: an unknown symbol adds nothing
RECURSIVE SumarMasasMutado(_, _, _)
SumarMasasMutado(elementos, k, masaTotal) ==
    IF k > Len(elementos) THEN Return(masaTotal)
    ELSE SumarMasasMutado(elementos, k + 1,
             IF ~EnTabla(elementos[k].el) THEN masaTotal
             ELSE Sumar(masaTotal,
                        Mul(MasaAtomica(elementos[k].el),
                            Entero(elementos[k].n))))

\* the loop of calcularMasaMolar
RECURSIVE SumarMasas(_, _, _)
SumarMasas(elementos, k, masaTotal) ==
    IF k > Len(elementos) THEN Return(masaTotal)
    ELSE IF ~EnTabla(elementos[k].el)
    THEN Throw(ErrorElemento(elementos[k].el))
    ELSE SumarMasas(elementos, k + 1,
             Sumar(masaTotal,
                   Mul(MasaAtomica(elementos[k].el), Entero(elementos[k].n))))

MasaDeParseada(elementos) ==
    IF elementos.tipo = "throw" THEN elementos
    ELSE SumarMasas(elementos.valor, 1, Entero(0))

calcularMasaMolar(f) == MasaDeParseada(parsearFormula(f))

\* masa / masaMolar
Cociente(masa, masaMolar) ==
    IF masaMolar.tipo = "throw" THEN masaMolar
    ELSE Return(Div(masa, masaMolar.valor))

masaAMoles(masa, f) == Cociente(masa, calcularMasaMolar(f))

\* moles * masaMolar
Producto(moles, masaMolar) ==
    IF masaMolar.tipo = "throw" THEN masaMolar
    ELSE Return(Mul(moles, masaMolar.valor))

molesAMasa(moles, f) == Producto(moles, calcularMasaMolar(f))

----------------------------------------------------------------------------
(* encontrarReactivoLimitante *)

Cien == 100

\* parseada.reactivos.find(r => r.formula === f): <<>> or <<the first match>>
RECURSIVE Encontrar(_, _, _)
Encontrar(lista, f, k) ==
    IF k > Len(lista) THEN <<>>
    ELSE IF lista[k].formula = f THEN <<lista[k]>>
    ELSE Encontrar(lista, f, k + 1)

\* encontrado?.coeficiente || 1
CoeficienteOUno(encontrado) ==
    IF Len(encontrado) = 0 \/ encontrado[1].coeficiente = 0 THEN 1
    ELSE encontrado[1].coeficiente

\* dato.moles * (dato.pureza / 100)
MolesEfectivos(dato) == Mul(dato.moles, Div(dato.pureza, Entero(Cien)))

\* datosReactivos.map(dato => ({ formula, moles, coeficiente }))
MolesEfectivosDe(reactivos, datos) ==
    [k \in 1..Len(datos) |->
        [formula |-> datos[k].formula,
         moles |-> MolesEfectivos(datos[k]),
         coeficiente |->
             CoeficienteOUno(Encontrar(reactivos, datos[k].formula, 1))]]

\* the loop that keeps the strictly smallest ratio; limitante is <<>> for
\* null, or <<reactivo>>
RECURSIVE BuscarMinimo(_, _, _, _)
RECURSIVE CompararProporcion(_, _, _, _, _)
BuscarMinimo(molesEfectivos, k, limitante, menorProporcion) ==
    IF k > Len(molesEfectivos)
    THEN [limitante |-> limitante, menorProporcion |-> menorProporcion]
    ELSE CompararProporcion(molesEfectivos, k, limitante, menorProporcion,
             Div(molesEfectivos[k].moles,
                 Entero(molesEfectivos[k].coeficiente)))

CompararProporcion(molesEfectivos, k, limitante, menorProporcion, proporcion) ==
    IF Menor(proporcion, menorProporcion)
    THEN BuscarMinimo(molesEfectivos, k + 1, <<molesEfectivos[k]>>,
                      proporcion)
    ELSE BuscarMinimo(molesEfectivos, k + 1, limitante, menorProporcion)

\* the return statement: limitante.formula throws when limitante is null
LimitanteDeMinimo(m) ==
    IF Len(m.limitante) = 0
    THEN Throw(TypeErrorNull(<<"f", "o", "r", "m", "u", "l", "a">>))
    ELSE Return([formula |-> m.limitante[1].formula,
                 moles |-> m.limitante[1].moles,
                 proporcion |-> m.menorProporcion])

\* the search started from 1 instead of Infinity
LimitanteDeParseadaMutado(parseada, datos) ==
    IF parseada.tipo = "throw" THEN parseada
    ELSE LimitanteDeMinimo(
             BuscarMinimo(MolesEfectivosDe(parseada.valor.reactivos, datos),
                          1, <<>>, Entero(1)))

LimitanteDeParseada(parseada, datos) ==
    IF parseada.tipo = "throw" THEN parseada
    ELSE LimitanteDeMinimo(
             BuscarMinimo(MolesEfectivosDe(parseada.valor.reactivos, datos),
                          1, <<>>, Infinity))

encontrarReactivoLimitante(e, datos) ==
    LimitanteDeParseada(parsearEcuacion(e), datos)

----------------------------------------------------------------------------
(* calcularExceso, calcularRendimientoTeorico, calcularPorcentajeRendimiento *)

\* the required moles without the coefficient
MolesNecesariosMutado(limitante, reactivo) == limitante.proporcion

\* limitante.proporcion * reactivo.coeficiente
MolesNecesarios(limitante, reactivo) ==
    Mul(limitante.proporcion, Entero(reactivo.coeficiente))

\* the loop of calcularExceso over datosReactivos
RECURSIVE ExcesoDesde(_, _, _, _, _)
RECURSIVE ExcesoDeReactivo(_, _, _, _, _, _)
RECURSIVE ExcesoDeMoles(_, _, _, _, _, _, _)
RECURSIVE ExcesoDeSobrantes(_, _, _, _, _, _, _, _)
RECURSIVE ExcesoDeMasa(_, _, _, _, _, _, _, _, _)
\* the subtraction the other way round: required minus effective moles
ExcesoDeMolesMutado(reactivos, datos, limitante, k, excesos, molesEfectivos, molesNecesarios) ==
    ExcesoDeSobrantes(reactivos, datos, limitante, k, excesos,
                      molesEfectivos, molesNecesarios,
                      Restar(molesNecesarios, molesEfectivos))

ExcesoDesde(reactivos, datos, limitante, k, excesos) ==
    IF k > Len(datos) THEN Return(excesos)
    ELSE IF datos[k].formula = limitante.formula
    THEN ExcesoDesde(reactivos, datos, limitante, k + 1, excesos)
    ELSE ExcesoDeReactivo(reactivos, datos, limitante, k, excesos,
                          Encontrar(reactivos, datos[k].formula, 1))

ExcesoDeReactivo(reactivos, datos, limitante, k, excesos, reactivo) ==
    IF Len(reactivo) = 0
    THEN ExcesoDesde(reactivos, datos, limitante, k + 1, excesos)
    ELSE ExcesoDeMoles(reactivos, datos, limitante, k, excesos,
                       MolesEfectivos(datos[k]),
                       MolesNecesarios(limitante, reactivo[1]))

ExcesoDeMoles(reactivos, datos, limitante, k, excesos, molesEfectivos, molesNecesarios) ==
    ExcesoDeSobrantes(reactivos, datos, limitante, k, excesos,
                      molesEfectivos, molesNecesarios,
                      Restar(molesEfectivos, molesNecesarios))

ExcesoDeSobrantes(reactivos, datos, limitante, k, excesos, molesEfectivos, molesNecesarios, molesSobrantes) ==
    ExcesoDeMasa(reactivos, datos, limitante, k, excesos,
                 molesEfectivos, molesNecesarios, molesSobrantes,
                 molesAMasa(molesSobrantes, datos[k].formula))

ExcesoDeMasa(reactivos, datos, limitante, k, excesos, molesEfectivos, molesNecesarios, molesSobrantes, masaSobrante) ==
    IF masaSobrante.tipo = "throw" THEN masaSobrante
    ELSE ExcesoDesde(reactivos, datos, limitante, k + 1,
             Append(excesos,
                 [formula |-> datos[k].formula,
                  molesIniciales |-> molesEfectivos,
                  molesUsados |-> molesNecesarios,
                  molesSobrantes |-> molesSobrantes,
                  masaSobrante |-> masaSobrante.valor]))

ExcesoDeParseada(parseada, datos, limitante) ==
    IF parseada.tipo = "throw" THEN parseada
    ELSE ExcesoDesde(parseada.valor.reactivos, datos, limitante, 1, <<>>)

calcularExceso(e, datos, limitante) ==
    ExcesoDeParseada(parsearEcuacion(e), datos, limitante)

\* the loop of calcularRendimientoTeorico over parseada.productos
RECURSIVE TeoricoDesde(_, _, _, _)
RECURSIVE TeoricoDeMoles(_, _, _, _, _)
RECURSIVE TeoricoDeMasa(_, _, _, _, _, _)
TeoricoDesde(productos, limitante, k, hechos) ==
    IF k > Len(productos) THEN Return(hechos)
    ELSE TeoricoDeMoles(productos, limitante, k, hechos,
             Mul(limitante.proporcion, Entero(productos[k].coeficiente)))

\* the mass taken of the limiting ratio instead of the product's moles
TeoricoDeMolesMutado(productos, limitante, k, hechos, moles) ==
    TeoricoDeMasa(productos, limitante, k, hechos, moles,
                  molesAMasa(limitante.proporcion, productos[k].formula))

TeoricoDeMoles(productos, limitante, k, hechos, moles) ==
    TeoricoDeMasa(productos, limitante, k, hechos, moles,
                  molesAMasa(moles, productos[k].formula))

TeoricoDeMasa(productos, limitante, k, hechos, moles, masa) ==
    IF masa.tipo = "throw" THEN masa
    ELSE TeoricoDesde(productos, limitante, k + 1,
             Append(hechos,
                 [formula |-> productos[k].formula,
                  coeficiente |-> productos[k].coeficiente,
                  molesTeoricoS |-> moles,
                  masaTeorica |-> masa.valor]))

TeoricoDeParseada(parseada, limitante) ==
    IF parseada.tipo = "throw" THEN parseada
    ELSE TeoricoDesde(parseada.valor.productos, limitante, 1, <<>>)

calcularRendimientoTeorico(e, limitante) ==
    TeoricoDeParseada(parsearEcuacion(e), limitante)

\* the percentage capped at 100
calcularPorcentajeRendimientoMutado(rendimientoReal, rendimientoTeorico) ==
    IF IgualEstricto(rendimientoTeorico, Entero(0)) THEN Entero(0)
    ELSE IF Menor(rendimientoTeorico, rendimientoReal) THEN Entero(Cien)
    ELSE Mul(Div(rendimientoReal, rendimientoTeorico), Entero(Cien))

\* if (rendimientoTeorico === 0) return 0; return (real / teorico) * 100
calcularPorcentajeRendimiento(rendimientoReal, rendimientoTeorico) ==
    IF IgualEstricto(rendimientoTeorico, Entero(0)) THEN Entero(0)
    ELSE Mul(Div(rendimientoReal, rendimientoTeorico), Entero(Cien))

----------------------------------------------------------------------------
(* calcularEstequiometria *)

\* datosProductoReal = null
SinProductoReal ==
    [presente |-> FALSE, formula |-> <<>>, masaReal |-> Undefined,
     molesReales |-> Undefined]

ErrorNoBalanceada == Error("La ecuación no está balanceada.", <<>>)

\* the callback of datosReactivos.map: moles from mass when moles is absent,
\* the initial mass, the purity defaulted to 100
NormalizarConMasa(dato, moles, masaInicial) ==
    IF masaInicial.tipo = "throw" THEN masaInicial
    ELSE Return([formula |-> dato.formula,
                 masaInicial |-> masaInicial.valor,
                 moles |-> moles,
                 pureza |-> IF EsFalsy(dato.pureza) THEN Entero(Cien)
                            ELSE dato.pureza])

NormalizarConMoles(dato, moles) ==
    IF moles.tipo = "throw" THEN moles
    ELSE NormalizarConMasa(dato, moles.valor,
             IF ~EsFalsy(dato.masa) THEN Return(dato.masa)
             ELSE molesAMasa(moles.valor, dato.formula))

\* the mass takes precedence: moles are derived from it whenever it is given
NormalizarDatoMutado(dato) ==
    NormalizarConMoles(dato,
        IF dato.masa.k # "undef"
        THEN masaAMoles(dato.masa, dato.formula)
        ELSE Return(dato.moles))

NormalizarDato(dato) ==
    NormalizarConMoles(dato,
        IF dato.masa.k # "undef" /\ dato.moles.k = "undef"
        THEN masaAMoles(dato.masa, dato.formula)
        ELSE Return(dato.moles))

RECURSIVE NormalizarDesde(_, _, _)
RECURSIVE SeguirNormalizando(_, _, _, _)
NormalizarDesde(datos, k, hechos) ==
    IF k > Len(datos) THEN Return(hechos)
    ELSE SeguirNormalizando(datos, k, hechos, NormalizarDato(datos[k]))

SeguirNormalizando(datos, k, hechos, r) ==
    IF r.tipo = "throw" THEN r
    ELSE NormalizarDesde(datos, k + 1, Append(hechos, r.valor))

\* let masaReal = d.masaReal;
\* if (d.molesReales !== undefined) masaReal = molesAMasa(d.molesReales, ...)
MasaRealUsadaMutado(d) ==
    IF d.masaReal.k = "undef" /\ d.molesReales.k # "undef"
    THEN molesAMasa(d.molesReales, d.formula)
    ELSE Return(d.masaReal)
MasaRealUsada(d) ==
    IF d.molesReales.k # "undef"
    THEN molesAMasa(d.molesReales, d.formula)
    ELSE Return(d.masaReal)

PorcentajeDeMasa(masaReal, masaTeorica) ==
    IF masaReal.tipo = "throw" THEN masaReal
    ELSE Return(calcularPorcentajeRendimiento(masaReal.valor, masaTeorica))

\* if (productoTeorico) { ... }
PorcentajeDeProducto(d, productoTeorico) ==
    IF Len(productoTeorico) = 0 THEN Return(Null)
    ELSE PorcentajeDeMasa(MasaRealUsada(d), productoTeorico[1].masaTeorica)

\* let porcentajeRendimiento = null; if (datosProductoReal) { ... }
PorcentajeRendimiento(productosTeoricos, d) ==
    IF ~d.presente THEN Return(Null)
    ELSE PorcentajeDeProducto(d, Encontrar(productosTeoricos, d.formula, 1))

\* lista.map(x => calcularMasaMolar(x.formula)) inside the returned record
RECURSIVE ConMasaMolar(_, _, _)
RECURSIVE SeguirMasaMolar(_, _, _, _)
ConMasaMolar(lista, k, hechos) ==
    IF k > Len(lista) THEN Return(hechos)
    ELSE SeguirMasaMolar(lista, k, hechos,
                         calcularMasaMolar(lista[k].formula))

SeguirMasaMolar(lista, k, hechos, masaMolar) ==
    IF masaMolar.tipo = "throw" THEN masaMolar
    ELSE ConMasaMolar(lista, k + 1, Append(hechos, masaMolar.valor))

\* the returned record
EnsamblarCon(limitante, excesos, productosTeoricos, porcentajeRendimiento, masaLimitante, masasExcesos, masasProductos) ==
    IF masaLimitante.tipo = "throw" THEN masaLimitante
    ELSE IF masasExcesos.tipo = "throw" THEN masasExcesos
    ELSE IF masasProductos.tipo = "throw" THEN masasProductos
    ELSE Return(
        [ecuacionValida |-> TRUE,
         balanceada |-> TRUE,
         reactivoLimitante |->
             [formula |-> limitante.formula,
              masaMolar |-> masaLimitante.valor,
              molesUsados |-> limitante.moles],
         reactivosEnExceso |->
             [k \in 1..Len(excesos) |->
                [formula |-> excesos[k].formula,
                 masaMolar |-> masasExcesos.valor[k],
                 molesIniciales |-> excesos[k].molesIniciales,
                 molesUsados |-> excesos[k].molesUsados,
                 molesSobrantes |-> excesos[k].molesSobrantes,
                 masaSobrante |-> excesos[k].masaSobrante]],
         productos |->
             [k \in 1..Len(productosTeoricos) |->
                [formula |-> productosTeoricos[k].formula,
                 masaMolar |-> masasProductos.valor[k],
                 molesTeoricos |-> productosTeoricos[k].molesTeoricoS,
                 masaTeorica |-> productosTeoricos[k].masaTeorica]],
         porcentajeRendimiento |-> porcentajeRendimiento])

Ensamblar(limitante, excesos, productosTeoricos, porcentajeRendimiento) ==
    EnsamblarCon(limitante, excesos, productosTeoricos,
                 porcentajeRendimiento,
                 calcularMasaMolar(limitante.formula),
                 ConMasaMolar(excesos, 1, <<>>),
                 ConMasaMolar(productosTeoricos, 1, <<>>))

\* the steps after the two pre-checks, each on the results of the ones
\* before it
ConPorcentaje(limitante, excesos, productosTeoricos, porcentaje) ==
    IF porcentaje.tipo = "throw" THEN porcentaje
    ELSE Ensamblar(limitante, excesos, productosTeoricos, porcentaje.valor)

ConProductos(d, limitante, excesos, productosTeoricos) ==
    IF productosTeoricos.tipo = "throw" THEN productosTeoricos
    ELSE ConPorcentaje(limitante, excesos, productosTeoricos.valor,
                       PorcentajeRendimiento(productosTeoricos.valor, d))

ConExcesos(e, d, limitante, excesos) ==
    IF excesos.tipo = "throw" THEN excesos
    ELSE ConProductos(d, limitante, excesos.valor,
                      calcularRendimientoTeorico(e, limitante))

ConLimitante(e, d, reactivosConMoles, limitante) ==
    IF limitante.tipo = "throw" THEN limitante
    ELSE ConExcesos(e, d, limitante.valor,
                    calcularExceso(e, reactivosConMoles, limitante.valor))

ConReactivos(e, d, reactivosConMoles) ==
    IF reactivosConMoles.tipo = "throw" THEN reactivosConMoles
    ELSE ConLimitante(e, d, reactivosConMoles.valor,
             encontrarReactivoLimitante(e, reactivosConMoles.valor))

\* if (!balance.balanceada) throw ...; then the calculation
LuegoDeBalanceMutado(e, datos, d, balance) ==
    IF balance.tipo = "throw" THEN balance
    ELSE ConReactivos(e, d, NormalizarDesde(datos, 1, <<>>))
LuegoDeBalance(e, datos, d, balance) ==
    IF balance.tipo = "throw" THEN balance
    ELSE IF ~balance.valor.balanceada THEN Throw(ErrorNoBalanceada)
    ELSE ConReactivos(e, d, NormalizarDesde(datos, 1, <<>>))

\* throw new Error(validacion.error)
ErrorDeValidacion(validacion) ==
    Throw(Error(validacion.error[1].texto, validacion.error[1].detalle))

BalanceAntesDeValidar(e, datos, d, validacion, balance) ==
    IF balance.tipo = "return" /\ ~balance.valor.balanceada
    THEN Throw(ErrorNoBalanceada)
    ELSE IF ~validacion.valida THEN ErrorDeValidacion(validacion)
    ELSE LuegoDeBalance(e, datos, d, balance)

\* if (!validacion.valida) throw ...; then the balance check
LuegoDeValidarMutado(e, datos, d, validacion) ==
    BalanceAntesDeValidar(e, datos, d, validacion, verificarBalance(e))
LuegoDeValidar(e, datos, d, validacion) ==
    IF ~validacion.valida THEN ErrorDeValidacion(validacion)
    ELSE LuegoDeBalance(e, datos, d, verificarBalance(e))

calcularEstequiometria(e, datos, d) ==
    LuegoDeValidar(e, datos, d, validarEcuacion(e).valor)

----------------------------------------------------------------------------
(* Inputs *)

MaxFormulaLen == 4
MaxTerminos == 2
MaxDatos == 2
MaxMoles == 2

\* all texts over `alfabeto` of length at most n
RECURSIVE Textos(_, _)
Textos(alfabeto, n) ==
    IF n = 0 THEN { <<>> }
    ELSE LET cortos == Textos(alfabeto, n - 1)
         IN  cortos \cup { Append(t, c) : t \in cortos, c \in alfabeto }

AlfabetoFormula == {"H", "O", "x", "0", "2", "(", ")", " "}

TextosFormula == Textos(AlfabetoFormula, MaxFormulaLen)

\* formulas with groups, nested groups and groups left open
FormulasAnidadas ==
    { <<"C", "a", "(", "O", "H", ")", "2">>,
      <<"A", "l", "2", "(", "S", "O", "4", ")", "3">>,
      <<"(", "(", "H", ")", "2", "O", ")", "3">>,
      <<"H", "(", "O", "(", "H", ")", "2", ")", "0", "H">>,
      <<"O", "(", "H", "(", "O", ")", "2", "H">>,
      <<"H", ")", "(", "O">> }

\* terms of an equation side
Terminos ==
    { <<>>,
      <<"H", "2">>,
      <<"2", "H", "2">>,
      <<"0", "H", "2">>,
      <<"O", "2">>,
      <<"2", "H", "2", "O">>,
      <<"X", "2">> }

TerminosRaros ==
    { <<"H", ")">>, <<" ", "H", "2", " ">>, <<"H", "0">> }

\* terms with symbols that are in no table
TerminosDesconocidos ==
    { <<"X", "Z", "X">>, <<"Q", "2">>, <<"H", "2">>, <<"Z", "H">> }

\* the terms of `lista` joined by "+"
RECURSIVE Unir(_)
Unir(lista) ==
    IF Len(lista) = 0 THEN <<>>
    ELSE IF Len(lista) = 1 THEN lista[1]
    ELSE lista[1] \o <<"+">> \o Unir(Tail(lista))

\* all lists over `conjunto` of length lo..hi
Listas(conjunto, lo, hi) ==
    UNION { [1..n -> conjunto] : n \in lo..hi }

Lados(terminos) == { Unir(l) : l \in Listas(terminos, 1, MaxTerminos) }

\* what stands between the two sides: nothing, one arrow in each of its
\* spellings, two arrows
Separadores ==
    { <<>>, Flecha, <<"=">>, <<FlechaUnicode>>, <<"=", FlechaUnicode>> }

TextosEcuacion ==
    { l \o Flecha \o r : l \in Lados(Terminos), r \in Lados(Terminos) }
    \cup { l \o sep \o r : l \in Terminos, sep \in Separadores,
                           r \in Terminos }
    \cup { l \o Flecha \o r : l \in TerminosRaros \cup {<<"O", "2">>},
                             r \in Lados(TerminosRaros \cup {<<"H", "2">>}) }
    \cup { l \o Flecha \o r : l \in Lados(TerminosDesconocidos),
                             r \in TerminosDesconocidos }

\* reactant records { formula, masa?, moles?, pureza? }
Dato(f, masa, moles, pureza) ==
    [formula |-> f, masa |-> masa, moles |-> moles, pureza |-> pureza]

FormulasDato == { <<"H", "2">>, <<"O", "2">> }

\* inputs of encontrarReactivoLimitante: { formula, moles, pureza }
DatosLimitante ==
    Listas({ Dato(f, Undefined, Entero(m), Entero(p)) :
                 f \in FormulasDato \cup { <<"N", "2">> },
                 m \in 0..MaxMoles, p \in {50, Cien} },
           0, MaxDatos)

EcuacionesLimitante ==
    { l \o Flecha \o <<"2", "H", "2", "O">> : l \in Lados(Terminos) }

\* inputs of calcularEstequiometria
DatosCalculo ==
    Listas({ Dato(f, Undefined, Entero(m), Undefined) :
                 f \in FormulasDato, m \in {0, MaxMoles} }
           \cup { Dato(<<"O", "2">>, Entero(32), Undefined, Undefined) },
           0, MaxDatos)

ProductoReal(f, masaReal, molesReales) ==
    [presente |-> TRUE, formula |-> f, masaReal |-> masaReal,
     molesReales |-> molesReales]

ProductosReales ==
    { SinProductoReal }
    \cup { ProductoReal(<<"H", "2", "O">>, masa, moles) :
               masa \in { Undefined, Entero(40) },
               moles \in { Undefined, Entero(MaxMoles) } }

EcuacionesCalculo ==
    { l \o Flecha \o r :
          l \in Lados(FormulasDato \cup { <<"2", "H", "2">>, <<"X", "2">> }),
          r \in { <<"2", "H", "2", "O">>, <<"H", "2", "O">>, <<"H", "2">> } }
    \cup { l \o sep \o r : l \in FormulasDato, sep \in Separadores,
                           r \in FormulasDato }
    \cup { l \o Flecha \o <<"H", "2">> : l \in TerminosRaros }

----------------------------------------------------------------------------
(* The state machine: a call of one operation on the inputs drawn by Init *)

SinLlamada == [tipo |-> "none"]

Entradas == <<formula, ecuacion, datosReactivos, datosProductoReal>>

escaner == <<estadoFormula, vueltas>>

interfaz == <<inputEcuacion, ecuacionActual, ecuacionParseada, mensajeEstado, temporizadores, seccionReactivos, contenedorReactivos, seccionResultados, contenedorResultados>>

\* no scan of parsearFormula is under way
EscanerEnReposo ==
    /\ estadoFormula = EstadoInicialFormula
    /\ vueltas = 0

\* the page after DOMContentLoaded: no equation, the two sections and the
\* status message hidden
PaginaCargada ==
    /\ inputEcuacion = <<>>
    /\ ecuacionActual = <<>>
    /\ ecuacionParseada = <<>>
    /\ mensajeEstado = [textContent |-> <<>>, tipo |-> "", display |-> "none"]
    /\ temporizadores = 0
    /\ seccionReactivos = "none"
    /\ contenedorReactivos = <<>>
    /\ seccionResultados = "none"
    /\ contenedorResultados = <<>>

Llamar(nombre, resultado) ==
    /\ op = ""
    /\ op' = nombre
    /\ ret' = resultado
    /\ UNCHANGED <<Entradas, escaner, interfaz>>

(* formula-level operations *)

InitFormula ==
    /\ formula \in TextosFormula \cup FormulasAnidadas
    /\ ecuacion = <<>>
    /\ datosReactivos = <<>>
    /\ datosProductoReal = SinProductoReal
    /\ op = ""
    /\ ret = SinLlamada
    /\ EscanerEnReposo
    /\ PaginaCargada

ParsearFormula == Llamar("parsearFormula", parsearFormula(formula))

ParsearCompuesto == Llamar("parsearCompuesto", parsearCompuesto(formula))

ValidarElementos == Llamar("validarElementos", validarElementos(formula))

CalcularMasaMolar == Llamar("calcularMasaMolar", calcularMasaMolar(formula))

NextFormula ==
    \/ ParsearFormula
    \/ ParsearCompuesto
    \/ ValidarElementos
    \/ CalcularMasaMolar

SpecFormula == InitFormula /\ [][NextFormula]_vars

(* equation-level operations *)

InitEcuacion ==
    /\ formula = <<>>
    /\ ecuacion \in TextosEcuacion
    /\ datosReactivos = <<>>
    /\ datosProductoReal = SinProductoReal
    /\ op = ""
    /\ ret = SinLlamada
    /\ EscanerEnReposo
    /\ PaginaCargada

ParsearEcuacion == Llamar("parsearEcuacion", parsearEcuacion(ecuacion))

VerificarBalance == Llamar("verificarBalance", verificarBalance(ecuacion))

ValidarEcuacion == Llamar("validarEcuacion", validarEcuacion(ecuacion))

NextEcuacion ==
    \/ ParsearEcuacion
    \/ VerificarBalance
    \/ ValidarEcuacion

SpecEcuacion == InitEcuacion /\ [][NextEcuacion]_vars

(* limiting-reagent selection *)

InitLimitante ==
    /\ formula = <<>>
    /\ ecuacion \in EcuacionesLimitante
    /\ datosReactivos \in DatosLimitante
    /\ datosProductoReal = SinProductoReal
    /\ op = ""
    /\ ret = SinLlamada
    /\ EscanerEnReposo
    /\ PaginaCargada

EncontrarReactivoLimitante ==
    Llamar("encontrarReactivoLimitante",
           encontrarReactivoLimitante(ecuacion, datosReactivos))

NextLimitante == EncontrarReactivoLimitante

SpecLimitante == InitLimitante /\ [][NextLimitante]_vars

(* limiting reagent, excess and theoretical yield of the same inputs *)

\* reactant records with ties between them and an impure one
DatosDeReactivos ==
    Listas({ Dato(<<"H", "2">>, Undefined, Entero(1), Entero(Cien)),
             Dato(<<"H", "2">>, Undefined, Entero(4), Entero(Cien)),
             Dato(<<"O", "2">>, Undefined, Entero(1), Entero(Cien)),
             Dato(<<"O", "2">>, Undefined, Entero(MaxMoles), Entero(Cien)),
             Dato(<<"O", "2">>, Undefined, Entero(MaxMoles), Entero(50)) },
           0, MaxDatos)

EcuacionesDeReactivos ==
    { l \o Flecha \o r :
          l \in Lados({ <<"2", "H", "2">>, <<"O", "2">>, <<"0", "H", "2">> }),
          r \in { <<"2", "H", "2", "O">>,
                  <<"H", "2", "O", "+", "3", "H", "2">>,
                  <<"X", "2">> } }

InitReactivos ==
    /\ formula = <<>>
    /\ ecuacion \in EcuacionesDeReactivos
    /\ datosReactivos \in DatosDeReactivos
    /\ datosProductoReal = SinProductoReal
    /\ op = ""
    /\ ret = SinLlamada
    /\ EscanerEnReposo
    /\ PaginaCargada

\* the limitante argument of the two later steps: the result of the first
LimitanteHallado == encontrarReactivoLimitante(ecuacion, datosReactivos)

CalcularExceso ==
    /\ LimitanteHallado.tipo = "return"
    /\ Llamar("calcularExceso",
              calcularExceso(ecuacion, datosReactivos, LimitanteHallado.valor))

CalcularRendimientoTeorico ==
    /\ LimitanteHallado.tipo = "return"
    /\ Llamar("calcularRendimientoTeorico",
              calcularRendimientoTeorico(ecuacion, LimitanteHallado.valor))

NextReactivos ==
    \/ EncontrarReactivoLimitante
    \/ CalcularExceso
    \/ CalcularRendimientoTeorico

SpecReactivos == InitReactivos /\ [][NextReactivos]_vars

(* the whole calculation *)

InitCalculo ==
    /\ formula = <<>>
    /\ ecuacion \in EcuacionesCalculo
    /\ datosReactivos \in DatosCalculo
    /\ datosProductoReal \in ProductosReales
    /\ op = ""
    /\ ret = SinLlamada
    /\ EscanerEnReposo
    /\ PaginaCargada

CalcularEstequiometria ==
    Llamar("calcularEstequiometria",
           calcularEstequiometria(ecuacion, datosReactivos, datosProductoReal))

NextCalculo == CalcularEstequiometria

SpecCalculo == InitCalculo /\ [][NextCalculo]_vars

----------------------------------------------------------------------------
(* Properties *)

Calculo == op = "calcularEstequiometria"

EcuacionValida == validarEcuacion(ecuacion).valor.valida

\* C1: calcularEstequiometria throws, with exactly the validator's error
\* string as message, whenever validarEcuacion reports the text invalid,
\* also when the equation is unbalanced as well.
C1_ErrorDeValidacion ==
    (Calculo /\ ~EcuacionValida)
        => /\ ret.tipo = "throw"
           /\ Mensaje(ret.error) = validarEcuacion(ecuacion).valor.error[1]

\* an invalid equation that is unbalanced too was rejected
C1_Testigo ==
    /\ Calculo
    /\ ~EcuacionValida
    /\ verificarBalance(ecuacion).tipo = "return"
    /\ ~verificarBalance(ecuacion).valor.balanceada
    /\ ret.tipo = "throw"

\* C2: for a text that passes validation and is not balanced,
\* calcularEstequiometria throws the unbalanced-equation error whatever the
\* reactant list, and returns no record.
C2_ErrorNoBalanceada ==
    (Calculo /\ EcuacionValida /\ ~verificarBalance(ecuacion).valor.balanceada)
        => ret = Throw(ErrorNoBalanceada)

\* a valid unbalanced equation was rejected with reactants and product given
C2_Testigo ==
    /\ Calculo
    /\ EcuacionValida
    /\ ~verificarBalance(ecuacion).valor.balanceada
    /\ Len(datosReactivos) > 1
    /\ datosProductoReal.presente
    /\ ret.tipo = "throw"

\* the coefficient of the first equation reactant written f, 1 when none is
CoeficienteDeLaEcuacion(reactivos, f) ==
    IF \E k \in 1..Len(reactivos) : reactivos[k].formula = f
    THEN reactivos[CHOOSE k \in 1..Len(reactivos) :
                       /\ reactivos[k].formula = f
                       /\ \A j \in 1..(k - 1) : reactivos[j].formula # f
                  ].coeficiente
    ELSE 1

\* effectiveMoles / coefficient of the k-th supplied reactant
ProporcionDe(k) ==
    Div(MolesEfectivos(datosReactivos[k]),
        Entero(CoeficienteDeLaEcuacion(
                   parsearEcuacion(ecuacion).valor.reactivos,
                   datosReactivos[k].formula)))

\* C3: encontrarReactivoLimitante returns the supplied reactant whose ratio
\* effectiveMoles / coefficient is smallest (the coefficient being that of
\* the equation reactant with the same formula, 1 when none matches), the
\* first one on ties, and the returned ratio is at most every ratio.
C3_LimitanteEsElMenor ==
    (op = "encontrarReactivoLimitante" /\ ret.tipo = "return")
        => \E k \in 1..Len(datosReactivos) :
              /\ ret.valor.formula = datosReactivos[k].formula
              /\ ret.valor.moles = MolesEfectivos(datosReactivos[k])
              /\ ret.valor.proporcion = ProporcionDe(k)
              /\ \A j \in 1..Len(datosReactivos) :
                     ~Menor(ProporcionDe(j), ProporcionDe(k))
              /\ \A j \in 1..(k - 1) : Menor(ProporcionDe(k), ProporcionDe(j))

\* the count of element e in one parsed compound, 0 when absent
CuentaEn(elementos, e) ==
    IF Tiene(elementos, e) THEN Valor(elementos, e) ELSE 0

\* sum over the terms of a side of coefficient * count of e
RECURSIVE SumaLado(_, _)
SumaLado(compuestos, e) ==
    IF Len(compuestos) = 0 THEN 0
    ELSE compuestos[1].coeficiente * CuentaEn(compuestos[1].elementos, e)
         + SumaLado(Tail(compuestos), e)

\* the elements occurring in the terms of a side
ElementosDelLado(compuestos) ==
    UNION { { compuestos[k].elementos[j].el :
                  j \in 1..Len(compuestos[k].elementos) } :
            k \in 1..Len(compuestos) }

\* C4: when the text parses, verificarBalance reports balanced exactly when
\* every element of either side has equal coefficient-weighted sums on the
\* two sides; detalles has exactly one entry per element of the union, with
\* the two sums (0 for a side the element is missing from) and the flag
\* reactivos = productos.
C4_Balance ==
    (op = "verificarBalance" /\ ret.tipo = "return")
        => LET p == parsearEcuacion(ecuacion).valor
               todos == ElementosDelLado(p.reactivos)
                        \cup ElementosDelLado(p.productos)
               det == ret.valor.detalles
           IN  /\ ret.valor.balanceada
                    <=> \A e \in todos : SumaLado(p.reactivos, e)
                                         = SumaLado(p.productos, e)
               /\ { det[k].el : k \in 1..Len(det) } = todos
               /\ Len(det) = Cardinality(todos)
               /\ \A k \in 1..Len(det) :
                    /\ det[k].reactivos = SumaLado(p.reactivos, det[k].el)
                    /\ det[k].productos = SumaLado(p.productos, det[k].el)
                    /\ det[k].el \notin ElementosDelLado(p.reactivos)
                           => det[k].reactivos = 0
                    /\ det[k].el \notin ElementosDelLado(p.productos)
                           => det[k].productos = 0
                    /\ det[k].balanceado
                           <=> det[k].reactivos = det[k].productos

\* an unbalanced equation with an element missing from the product side and
\* another element that is balanced
C4_Testigo ==
    /\ op = "verificarBalance"
    /\ ret.tipo = "return"
    /\ ~ret.valor.balanceada
    /\ \E k \in 1..Len(ret.valor.detalles) :
          /\ ret.valor.detalles[k].productos = 0
          /\ ret.valor.detalles[k].reactivos > 1
    /\ \E k \in 1..Len(ret.valor.detalles) :
          /\ ret.valor.detalles[k].balanceado
          /\ ret.valor.detalles[k].reactivos > 1

\* the parts the arrow-normalized text splits into
PartesDe(e) == split(NormalizarFlecha(e), Flecha)

TerminoVacio == [coeficiente |-> 1, formula |-> <<>>, elementos |-> <<>>]

\* C5 as claimed: parsearEcuacion throws unless the split yields exactly two
\* parts that are both non-empty.
C5_LadosVaciosRechazados ==
    (op = "parsearEcuacion"
     /\ ~(/\ Len(PartesDe(ecuacion)) = 2
          /\ Len(PartesDe(ecuacion)[1]) > 0
          /\ Len(PartesDe(ecuacion)[2]) > 0))
        => ret.tipo = "throw"

\* C5 as amended: parsearEcuacion throws the arrow error exactly when the
\* split does not yield exactly two parts; a side that is empty once
\* trimmed is accepted and parses to one term with coefficient 1, an empty
\* formula and no elements.
C5_SoloCuentaLasPartes ==
    op = "parsearEcuacion"
        => LET partes == PartesDe(ecuacion)
           IN  /\ ret = Throw(ErrorFlecha) <=> Len(partes) # 2
               /\ (Len(partes) = 2 /\ ret.tipo = "return")
                    => /\ Len(trim(partes[1])) = 0
                           => ret.valor.reactivos = <<TerminoVacio>>
                       /\ Len(trim(partes[2])) = 0
                           => ret.valor.productos = <<TerminoVacio>>
               /\ (/\ Len(partes) = 2
                   /\ Len(trim(partes[1])) = 0
                   /\ Len(trim(partes[2])) = 0)
                    => ret.tipo = "return"

\* a text with nothing before its single arrow was parsed
C5_Testigo ==
    /\ op = "parsearEcuacion"
    /\ Len(PartesDe(ecuacion)) = 2
    /\ Len(PartesDe(ecuacion)[1]) = 0
    /\ Len(PartesDe(ecuacion)[2]) > 0
    /\ ret.tipo = "return"

\* C6: when validarEcuacion reports valid, each side of the parsed equation
\* has at least one term and every term has a non-empty formula.
C6_ValidaSinTerminosVacios ==
    (op = "validarEcuacion" /\ ret.valor.valida)
        => LET p == parsearEcuacion(ecuacion).valor
           IN  /\ Len(p.reactivos) >= 1
               /\ Len(p.productos) >= 1
               /\ \A k \in 1..Len(p.reactivos) : p.reactivos[k].formula # <<>>
               /\ \A k \in 1..Len(p.productos) : p.productos[k].formula # <<>>

\* C7: validarElementos and validarEcuacion never throw: they always return
\* a structured value.
C7_ValidacionNuncaLanza ==
    op \in {"validarElementos", "validarEcuacion"} => ret.tipo = "return"

\* C8: every count in the map parsearFormula returns is at least 1.
C8_ConteosPositivos ==
    (op = "parsearFormula" /\ ret.tipo = "return")
        => \A k \in 1..Len(ret.valor) : ret.valor[k].n >= 1

\* C9: the coefficient parsearCompuesto returns is a positive integer, 1
\* when the term has no leading digit.
C9_CoeficientePositivo ==
    (op = "parsearCompuesto" /\ ret.tipo = "return")
        => /\ ret.valor.coeficiente >= 1
           /\ FinDeRacha(trim(formula), 1, Digitos) = 1
                  => ret.valor.coeficiente = 1

\* the product of the result that the actual-product record names
ProductoNombrado == Encontrar(ret.valor.productos, datosProductoReal.formula, 1)

ProductoRealEncontrado ==
    /\ Calculo
    /\ ret.tipo = "return"
    /\ datosProductoReal.presente
    /\ Len(ProductoNombrado) > 0

\* C10 as claimed: with both masaReal and molesReales given, the percent
\* yield is computed from the given mass.
C10_MasaPreferida ==
    (/\ ProductoRealEncontrado
     /\ datosProductoReal.masaReal.k # "undef"
     /\ datosProductoReal.molesReales.k # "undef")
        => ret.valor.porcentajeRendimiento
           = calcularPorcentajeRendimiento(datosProductoReal.masaReal,
                                           ProductoNombrado[1].masaTeorica)

\* C10 as amended: whenever molesReales is given (with or without masaReal)
\* the percent yield is computed from molesReales * molar mass; the given
\* mass is used only when molesReales is absent.
C10_MolesPreferidos ==
    ProductoRealEncontrado
        => /\ datosProductoReal.molesReales.k # "undef"
               => ret.valor.porcentajeRendimiento
                  = calcularPorcentajeRendimiento(
                        Mul(datosProductoReal.molesReales,
                            ProductoNombrado[1].masaMolar),
                        ProductoNombrado[1].masaTeorica)
           /\ (/\ datosProductoReal.molesReales.k = "undef"
               /\ datosProductoReal.masaReal.k # "undef")
               => ret.valor.porcentajeRendimiento
                  = calcularPorcentajeRendimiento(
                        datosProductoReal.masaReal,
                        ProductoNombrado[1].masaTeorica)

\* a percent yield was computed with both the mass and the moles given
C10_Testigo ==
    /\ ProductoRealEncontrado
    /\ datosProductoReal.masaReal.k # "undef"
    /\ datosProductoReal.molesReales.k # "undef"
    /\ ret.valor.porcentajeRendimiento.k = "num"

\* the mass the percent yield is taken of: the moles converted to mass when
\* moles are given, the given mass otherwise
MasaRealDada ==
    IF datosProductoReal.molesReales.k # "undef"
    THEN Mul(datosProductoReal.molesReales, ProductoNombrado[1].masaMolar)
    ELSE datosProductoReal.masaReal

ProductoDeLaEcuacion ==
    \E k \in 1..Len(parsearEcuacion(ecuacion).valor.productos) :
        parsearEcuacion(ecuacion).valor.productos[k].formula
            = datosProductoReal.formula

\* C11: the percent yield calcularEstequiometria returns is null when no
\* actual-product record is given or its formula is no product of the
\* equation; otherwise it is 100 * actual mass / theoretical mass, not
\* capped at 100, and 0 when the theoretical mass is 0.
C11_PorcentajeRendimiento ==
    (Calculo /\ ret.tipo = "return")
        => /\ (~datosProductoReal.presente \/ ~ProductoDeLaEcuacion)
                  => ret.valor.porcentajeRendimiento = Null
           /\ (/\ datosProductoReal.presente
               /\ ProductoDeLaEcuacion
               /\ \/ datosProductoReal.masaReal.k = "num"
                  \/ datosProductoReal.molesReales.k = "num")
                  => /\ Len(ProductoNombrado) = 1
                     /\ ret.valor.porcentajeRendimiento
                        = IF ProductoNombrado[1].masaTeorica = Entero(0)
                          THEN Entero(0)
                          ELSE Mul(Entero(Cien),
                                   Div(MasaRealDada,
                                       ProductoNombrado[1].masaTeorica))

\* a percent yield above 100 was returned for a given mass
C11_Testigo ==
    /\ ProductoRealEncontrado
    /\ datosProductoReal.molesReales.k = "undef"
    /\ datosProductoReal.masaReal.k = "num"
    /\ Menor(Entero(Cien), ret.valor.porcentajeRendimiento)

\* every supplied reactant is written as a reactant of the equation
DatosDeLaEcuacion ==
    \A k \in 1..Len(datosReactivos) :
        \E j \in 1..Len(parsearEcuacion(ecuacion).valor.reactivos) :
            parsearEcuacion(ecuacion).valor.reactivos[j].formula
                = datosReactivos[k].formula

\* C12: once the equation has passed validation and the balance check,
\* calcularEstequiometria returns a result record for every list of zero or
\* more reactant inputs whose formulas are reactants of the equation.
C12_SinMasErrores ==
    (/\ Calculo
     /\ EcuacionValida
     /\ verificarBalance(ecuacion).valor.balanceada
     /\ DatosDeLaEcuacion)
        => ret.tipo = "return"

\* the sum of masaAtomica * count over parsed elements, in thousandths
RECURSIVE SumaDeMilesimas(_)
SumaDeMilesimas(elementos) ==
    IF Len(elementos) = 0 THEN 0
    ELSE ELEMENTOS[elementos[1].el].masaAtomica * elementos[1].n
         + SumaDeMilesimas(Tail(elementos))

SimbolosFueraDeTabla(elementos) ==
    { k \in 1..Len(elementos) : elementos[k].el \notin DOMAIN ELEMENTOS }

\* C13: calcularMasaMolar throws the unrecognized-element error exactly
\* when some parsed symbol is absent from the table, which is exactly when
\* validarElementos reports valida = false; otherwise it returns the sum of
\* masaAtomica * count over the parsed elements.
C13_MasaMolar ==
    op = "calcularMasaMolar"
        => LET p == parsearFormula(formula)
               v == validarElementos(formula)
               lanza == /\ ret.tipo = "throw"
                        /\ ret.error.clase = "Error"
                        /\ ret.error.texto = "Elemento no reconocido: "
           IN  /\ lanza <=> (v.tipo = "return" /\ ~v.valor.valida)
               /\ lanza <=> (/\ p.tipo = "return"
                             /\ SimbolosFueraDeTabla(p.valor) # {})
               /\ lanza => \E k \in SimbolosFueraDeTabla(p.valor) :
                              /\ ret.error.detalle = <<p.valor[k].el>>
                              /\ \A j \in SimbolosFueraDeTabla(p.valor) :
                                     k <= j
               /\ (p.tipo = "return" /\ SimbolosFueraDeTabla(p.valor) = {})
                      => ret = Return(Num(SumaDeMilesimas(p.valor), 1000))
               /\ p.tipo = "throw" => ret = p

\* the error was thrown for a formula that also holds a known element
C13_Testigo ==
    /\ op = "calcularMasaMolar"
    /\ ret.tipo = "throw"
    /\ ret.error.clase = "Error"
    /\ \E k \in 1..Len(parsearFormula(formula).valor) :
           parsearFormula(formula).valor[k].el \in DOMAIN ELEMENTOS

\* the symbols written in a text, in order of writing, repeats included
RECURSIVE SimbolosEscritos(_, _)
SimbolosEscritos(f, i) ==
    IF i > Len(f) THEN <<>>
    ELSE IF f[i] \in Mayusculas
    THEN <<SubSeq(f, i, FinDeRacha(f, i + 1, Minusculas) - 1)>>
         \o SimbolosEscritos(f, FinDeRacha(f, i + 1, Minusculas))
    ELSE SimbolosEscritos(f, i + 1)

\* a sequence without the repeats of its entries, first occurrences kept
RECURSIVE SinRepetir(_)
SinRepetir(s) ==
    IF Len(s) = 0 THEN <<>>
    ELSE LET antes == SinRepetir(SubSeq(s, 1, Len(s) - 1))
         IN  IF \E k \in 1..Len(antes) : antes[k] = s[Len(s)]
             THEN antes ELSE Append(antes, s[Len(s)])

FueraDeTabla(simbolo) == simbolo \notin DOMAIN ELEMENTOS

\* the unknown symbols of a text, each once, in order of first writing
DesconocidosDelTexto(f) ==
    SelectSeq(SinRepetir(SimbolosEscritos(f, 1)), FueraDeTabla)

CompuestosDe(parseada) == parseada.reactivos \o parseada.productos

CompuestosEnOrden == CompuestosDe(parsearEcuacion(ecuacion).valor)

\* the first compound of c with a symbol that is not in the table
PrimerInvalido(c) ==
    CHOOSE k \in 1..Len(c) :
        /\ SimbolosFueraDeTabla(c[k].elementos) # {}
        /\ \A j \in 1..(k - 1) : SimbolosFueraDeTabla(c[j].elementos) = {}

\* `listados` holds the unknown symbols of `compuesto`, each once, in the
\* order of first writing (compared with the text when it has no groups)
ListaLosDe(compuesto, listados) ==
    /\ { listados[j] : j \in 1..Len(listados) }
       = { compuesto.elementos[j].el :
               j \in SimbolosFueraDeTabla(compuesto.elementos) }
    /\ \A i, j \in 1..Len(listados) : i # j => listados[i] # listados[j]
    /\ (\A j \in 1..Len(compuesto.formula) :
            compuesto.formula[j] \notin {"(", ")"})
           => listados = DesconocidosDelTexto(compuesto.formula)

RechazaPrimerInvalido(c) ==
    (\E k \in 1..Len(c) : SimbolosFueraDeTabla(c[k].elementos) # {})
        => /\ ret.tipo = "return"
           /\ ~ret.valor.valida
           /\ ret.valor.error[1].texto = "Elemento(s) no reconocido(s): "
           /\ ListaLosDe(c[PrimerInvalido(c)], ret.valor.error[1].detalle)

RechazaDeParseada(parseada) ==
    parseada.tipo = "return"
        => RechazaPrimerInvalido(CompuestosDe(parseada.valor))

\* C14: validarEcuacion checks the reactants in text order, then the
\* products, and stops at the first compound with a symbol that is not in
\* the table: the error lists that compound's unknown symbols, each once,
\* in order of first appearance, and nothing of a later compound.
C14_PrimerCompuestoInvalido ==
    op = "validarEcuacion" => RechazaDeParseada(parsearEcuacion(ecuacion))

\* the second compound was the first offending one, with two unknown
\* symbols, and a later compound holds another unknown symbol
C14_Testigo ==
    /\ op = "validarEcuacion"
    /\ parsearEcuacion(ecuacion).tipo = "return"
    /\ Len(CompuestosEnOrden) > 2
    /\ SimbolosFueraDeTabla(CompuestosEnOrden[1].elementos) = {}
    /\ ret.valor.error # <<>>
    /\ Len(ret.valor.error[1].detalle) = 2
    /\ \E k \in 3..Len(CompuestosEnOrden) :
         \E j \in SimbolosFueraDeTabla(CompuestosEnOrden[k].elementos) :
           \A i \in 1..2 : ret.valor.error[1].detalle[i]
                               # CompuestosEnOrden[k].elementos[j].el

\* the factors the moles are multiplied by: 2, 3 and 1/2
Factores == { Entero(2), Entero(3), Num(1, 2) }

\* the reactant list with every moles value multiplied by c
Escalar(datos, c) ==
    [k \in 1..Len(datos) |-> [datos[k] EXCEPT !.moles = Mul(@, c)]]

\* the first position of `datos` that the returned limiting reagent is at
PosicionDe(datos, limitante) ==
    CHOOSE k \in 1..Len(datos) :
        /\ datos[k].formula = limitante.formula
        /\ MolesEfectivos(datos[k]) = limitante.moles
        /\ \A j \in 1..(k - 1) :
               ~(/\ datos[j].formula = limitante.formula
                 /\ MolesEfectivos(datos[j]) = limitante.moles)

LimitanteEscalado(c) ==
    encontrarReactivoLimitante(ecuacion, Escalar(datosReactivos, c))

\* C15: multiplying the moles of every supplied reactant by the same
\* positive factor leaves the formula and the list position of the limiting
\* reagent unchanged, and multiplies the returned ratio, every excess
\* amount and every theoretical product amount by that factor.
C15_InvarianteDeEscala ==
    \A c \in Factores :
        /\ op = "encontrarReactivoLimitante"
              => /\ LimitanteEscalado(c).tipo = ret.tipo
                 /\ ret.tipo = "return"
                      => /\ LimitanteEscalado(c).valor.formula
                            = ret.valor.formula
                         /\ PosicionDe(Escalar(datosReactivos, c),
                                       LimitanteEscalado(c).valor)
                            = PosicionDe(datosReactivos, ret.valor)
                         /\ LimitanteEscalado(c).valor.proporcion
                            = Mul(ret.valor.proporcion, c)
                         /\ LimitanteEscalado(c).valor.moles
                            = Mul(ret.valor.moles, c)
        /\ op = "calcularExceso"
              => LET r == calcularExceso(ecuacion,
                              Escalar(datosReactivos, c),
                              LimitanteEscalado(c).valor)
                 IN  /\ r.tipo = ret.tipo
                     /\ ret.tipo = "return"
                          => /\ Len(r.valor) = Len(ret.valor)
                             /\ \A k \in 1..Len(ret.valor) :
                                  /\ r.valor[k].formula = ret.valor[k].formula
                                  /\ r.valor[k].molesIniciales
                                     = Mul(ret.valor[k].molesIniciales, c)
                                  /\ r.valor[k].molesUsados
                                     = Mul(ret.valor[k].molesUsados, c)
                                  /\ r.valor[k].molesSobrantes
                                     = Mul(ret.valor[k].molesSobrantes, c)
                                  /\ r.valor[k].masaSobrante
                                     = Mul(ret.valor[k].masaSobrante, c)
        /\ op = "calcularRendimientoTeorico"
              => LET r == calcularRendimientoTeorico(ecuacion,
                              LimitanteEscalado(c).valor)
                 IN  /\ r.tipo = ret.tipo
                     /\ ret.tipo = "return"
                          => /\ Len(r.valor) = Len(ret.valor)
                             /\ \A k \in 1..Len(ret.valor) :
                                  /\ r.valor[k].formula = ret.valor[k].formula
                                  /\ r.valor[k].molesTeoricoS
                                     = Mul(ret.valor[k].molesTeoricoS, c)
                                  /\ r.valor[k].masaTeorica
                                     = Mul(ret.valor[k].masaTeorica, c)

\* the second of two reactants with different ratios was the limiting one
C15_Testigo ==
    /\ op = "encontrarReactivoLimitante"
    /\ ret.tipo = "return"
    /\ Len(datosReactivos) > 1
    /\ ret.valor.formula # datosReactivos[1].formula
    /\ PosicionDe(datosReactivos, ret.valor) = 2
    /\ Menor(Entero(0), ret.valor.proporcion)

ProductosDeLaEcuacion == parsearEcuacion(ecuacion).valor.productos

\* C19: calcularRendimientoTeorico returns one entry per product term of
\* the equation, in the equation's order, with theoretical moles = limiting
\* ratio * the product's coefficient and theoretical mass = those moles *
\* the molar mass of the product.
C19_RendimientoTeorico ==
    op = "calcularRendimientoTeorico"
        => /\ ret.tipo = "throw"
                <=> \E k \in 1..Len(ProductosDeLaEcuacion) :
                        SimbolosFueraDeTabla(
                            ProductosDeLaEcuacion[k].elementos) # {}
           /\ ret.tipo = "return"
                => /\ Len(ret.valor) = Len(ProductosDeLaEcuacion)
                   /\ \A k \in 1..Len(ret.valor) :
                        /\ ret.valor[k].formula
                           = ProductosDeLaEcuacion[k].formula
                        /\ ret.valor[k].coeficiente
                           = ProductosDeLaEcuacion[k].coeficiente
                        /\ ret.valor[k].molesTeoricoS
                           = Mul(LimitanteHallado.valor.proporcion,
                                 Entero(ProductosDeLaEcuacion[k].coeficiente))
                        /\ ret.valor[k].masaTeorica
                           = Mul(ret.valor[k].molesTeoricoS,
                                 Num(SumaDeMilesimas(
                                         ProductosDeLaEcuacion[k].elementos),
                                     1000))

\* 2H2 + O2 -> 2H2O with 4 mol H2 and 1 mol O2: O2 limits, 2 mol H2O
C19_Testigo ==
    /\ op = "calcularRendimientoTeorico"
    /\ ecuacion = <<"2", "H", "2", "+", "O", "2", "-", ">", "2", "H", "2", "O">>
    /\ Len(datosReactivos) = 2
    /\ datosReactivos[1].formula = <<"H", "2">>
    /\ datosReactivos[1].moles = Entero(4)
    /\ datosReactivos[2].formula = <<"O", "2">>
    /\ datosReactivos[2].moles = Entero(1)
    /\ LimitanteHallado.valor.formula = <<"O", "2">>
    /\ ret.tipo = "return"
    /\ Len(ret.valor) = 1
    /\ ret.valor[1].formula = <<"H", "2", "O">>
    /\ ret.valor[1].molesTeoricoS = Entero(2)

ReactivosDeLaEcuacion == parsearEcuacion(ecuacion).valor.reactivos

EsReactivoDeLaEcuacion(f) ==
    \E j \in 1..Len(ReactivosDeLaEcuacion) :
        ReactivosDeLaEcuacion[j].formula = f

\* the positions 1..n in order
Posiciones(n) == [k \in 1..n |-> k]

\* the entry calcularExceso is to hold for the supplied reactant at k
EntradaDeExceso(k) ==
    LET efectivos == MolesEfectivos(datosReactivos[k])
        usados == Mul(LimitanteHallado.valor.proporcion,
                      Entero(CoeficienteDeLaEcuacion(
                                 ReactivosDeLaEcuacion,
                                 datosReactivos[k].formula)))
    IN  [formula |-> datosReactivos[k].formula,
         molesIniciales |-> efectivos,
         molesUsados |-> usados,
         molesSobrantes |-> Restar(efectivos, usados),
         masaSobrante |->
             Mul(Restar(efectivos, usados),
                 Num(SumaDeMilesimas(
                         parsearFormula(datosReactivos[k].formula).valor),
                     1000))]

\* every supplied reactant but the one at the limiting position
OtroQueElLimitante(k) ==
    /\ k # PosicionDe(datosReactivos, LimitanteHallado.valor)
    /\ EsReactivoDeLaEcuacion(datosReactivos[k].formula)

\* every supplied reactant written otherwise than the limiting one
OtraFormulaQueElLimitante(k) ==
    /\ datosReactivos[k].formula # LimitanteHallado.valor.formula
    /\ EsReactivoDeLaEcuacion(datosReactivos[k].formula)

\* C20 as claimed: calcularExceso returns one entry for every supplied
\* reactant other than the limiting one whose formula is a reactant of the
\* equation, with molesUsados = limiting ratio * coefficient and
\* molesSobrantes = effective moles - molesUsados.
C20_UnaEntradaPorOtroReactivo ==
    (op = "calcularExceso" /\ ret.tipo = "return")
        => LET otros == SelectSeq(Posiciones(Len(datosReactivos)),
                                  OtroQueElLimitante)
           IN  /\ Len(ret.valor) = Len(otros)
               /\ \A i \in 1..Len(otros) :
                      ret.valor[i] = EntradaDeExceso(otros[i])

\* C20 as amended: calcularExceso returns one entry, in list order, for
\* every supplied reactant whose formula differs from the limiting
\* reagent's formula and is a reactant of the equation; a supplied reactant
\* with the limiting formula has no entry, the limiting one or not.
C20_UnaEntradaPorOtraFormula ==
    (op = "calcularExceso" /\ ret.tipo = "return")
        => LET otros == SelectSeq(Posiciones(Len(datosReactivos)),
                                  OtraFormulaQueElLimitante)
           IN  /\ Len(ret.valor) = Len(otros)
               /\ \A i \in 1..Len(otros) :
                      ret.valor[i] = EntradaDeExceso(otros[i])

\* two supplied reactants with the limiting formula and different moles:
\* neither has an entry
C20_Testigo ==
    /\ op = "calcularExceso"
    /\ ret = Return(<<>>)
    /\ Len(datosReactivos) = 2
    /\ datosReactivos[1].formula = LimitanteHallado.valor.formula
    /\ datosReactivos[2].formula = LimitanteHallado.valor.formula
    /\ EsReactivoDeLaEcuacion(datosReactivos[2].formula)
    /\ datosReactivos[1].moles # datosReactivos[2].moles

\* the depth of open groups after f[i..], from depth d; -1 once a ")" has
\* closed no group
RECURSIVE Recorrer(_, _, _)
Recorrer(f, i, d) ==
    IF d < 0 THEN 0 - 1
    ELSE IF i > Len(f) THEN d
    ELSE Recorrer(f, i + 1,
                  IF f[i] = "(" THEN d + 1
                  ELSE IF f[i] = ")" THEN d - 1 ELSE d)

Balanceada(f) == Recorrer(f, 1, 0) = 0

\* the position of the ")" that closes the group open d deep at i, 0 if none
RECURSIVE CierreDesde(_, _, _)
CierreDesde(f, i, d) ==
    IF i > Len(f) THEN 0
    ELSE IF f[i] = ")"
    THEN (IF d = 1 THEN i ELSE CierreDesde(f, i + 1, d - 1))
    ELSE IF f[i] = "(" THEN CierreDesde(f, i + 1, d + 1)
    ELSE CierreDesde(f, i + 1, d)

Cierre(f, p) == CierreDesde(f, p + 1, 1)

\* the text wrapped in one more group with the multiplier written as n
Envolver(f, n) == <<"(">> \o f \o <<")">> \o n

Multiplicadores ==
    { [texto |-> <<>>, n |-> 1], [texto |-> <<"1">>, n |-> 1],
      [texto |-> <<"2">>, n |-> 2], [texto |-> <<"1", "2">>, n |-> 12] }

\* C16: for a formula with balanced parentheses, wrapping it in one more
\* pair with no multiplier or multiplier 1 leaves parsearFormula's counts
\* unchanged, and wrapping with multiplier n multiplies every count by n.
C16_GrupoRedundante ==
    (op = "parsearFormula" /\ Balanceada(formula))
        => /\ ret.tipo = "return"
           /\ \A m \in Multiplicadores :
                  parsearFormula(Envolver(formula, m.texto))
                  = Return([k \in 1..Len(ret.valor) |->
                               [el |-> ret.valor[k].el,
                                n |-> ret.valor[k].n * m.n]])

\* a formula that holds a group of its own and two elements was parsed
C16_Testigo ==
    /\ op = "parsearFormula"
    /\ Balanceada(formula)
    /\ \E p \in 1..(Len(formula) - 1) :
           formula[p] = "(" /\ formula[p + 1] \in Mayusculas
    /\ ret.tipo = "return"
    /\ Len(ret.valor) > 1
    /\ parsearFormula(Envolver(formula, <<"2">>)).valor[1].n
       = 2 * ret.valor[1].n
    /\ ret.valor[1].n > 0

\* the positions at which an element symbol starts
Ocurrencias(f) == { i \in 1..Len(f) : f[i] \in Mayusculas }

SimboloEn(f, i) == SubSeq(f, i, FinDeRacha(f, i + 1, Minusculas) - 1)

\* the digits written from j on, as a number, 1 when there are none
NumeroEscrito(f, j) == NumeroOUno(SubSeq(f, j, FinDeRacha(f, j, Digitos) - 1))

SubindiceEn(f, i) == NumeroEscrito(f, FinDeRacha(f, i + 1, Minusculas))

\* the product of the multipliers of the groups opened at p..i-1 that
\* enclose position i
RECURSIVE FactorDesde(_, _, _)
FactorDesde(f, i, p) ==
    IF p >= i THEN 1
    ELSE (IF f[p] = "(" /\ Cierre(f, p) > i
          THEN NumeroEscrito(f, Cierre(f, p) + 1) ELSE 1)
         * FactorDesde(f, i, p + 1)

\* the sum over the occurrences of e at i.. of subscript * enclosing factor
RECURSIVE CuentaDesde(_, _, _)
CuentaDesde(f, e, i) ==
    IF i > Len(f) THEN 0
    ELSE (IF i \in Ocurrencias(f) /\ SimboloEn(f, i) = e
          THEN SubindiceEn(f, i) * FactorDesde(f, i, 1) ELSE 0)
         + CuentaDesde(f, e, i + 1)

\* C17: with balanced parentheses, the count parsearFormula returns for
\* each element is the sum over its occurrences of subscript (1 if none)
\* times the product of the multipliers (1 if none) of the groups that
\* enclose the occurrence; the map has one entry per element written.
C17_CuentaPorOcurrencias ==
    (op = "parsearFormula" /\ Balanceada(formula))
        => /\ ret.tipo = "return"
           /\ { ret.valor[k] : k \in 1..Len(ret.valor) }
              = { [el |-> SimboloEn(formula, i),
                   n |-> CuentaDesde(formula, SimboloEn(formula, i), 1)] :
                  i \in Ocurrencias(formula) }
           /\ \A j, k \in 1..Len(ret.valor) :
                  j # k => ret.valor[j].el # ret.valor[k].el

\* Al2(SO4)3 gave Al:2, S:3, O:12
C17_Testigo ==
    /\ op = "parsearFormula"
    /\ formula = <<"A", "l", "2", "(", "S", "O", "4", ")", "3">>
    /\ ret = Return(<< [el |-> <<"A", "l">>, n |-> 2],
                       [el |-> <<"S">>, n |-> 3],
                       [el |-> <<"O">>, n |-> 12] >>)

\* the "(" of f that no ")" closes
Abiertos(f) == { p \in 1..Len(f) : f[p] = "(" /\ Cierre(f, p) = 0 }

PrimerAbierto(f) == CHOOSE p \in Abiertos(f) : \A q \in Abiertos(f) : p <= q

\* the text that is scanned while the bottom frame is the current one
AntesDelAbierto(f) == SubSeq(f, 1, PrimerAbierto(f) - 1)

\* C18: for a formula with a "(" that is never closed, parsearFormula
\* returns, and the result holds exactly the counts of the elements written
\* before the first unclosed "(": what follows it contributes nothing.
C18_SoloElMarcoInferior ==
    (op = "parsearFormula" /\ Abiertos(formula) # {})
        => /\ ret.tipo = "return"
           /\ { ret.valor[k] : k \in 1..Len(ret.valor) }
              = { [el |-> SimboloEn(AntesDelAbierto(formula), i),
                   n |-> CuentaDesde(AntesDelAbierto(formula),
                                     SimboloEn(AntesDelAbierto(formula), i),
                                     1)] :
                  i \in Ocurrencias(AntesDelAbierto(formula)) }

----------------------------------------------------------------------------
(* The normalization step of calcularEstequiometria on its own *)

\* reactant records with mass, moles and purity each given or absent, moles
\* and purity also given as 0
DatosNormalizacion ==
    Listas({ Dato(f, masa, moles, pureza) :
                 f \in FormulasDato,
                 masa \in { Undefined, Entero(4) },
                 moles \in { Undefined, Entero(0), Entero(MaxMoles) },
                 pureza \in { Undefined, Entero(0), Entero(50) } },
           0, MaxDatos)

InitNormalizacion ==
    /\ formula = <<>>
    /\ ecuacion = <<"2", "H", "2", "+", "O", "2", "-", ">", "2", "H", "2", "O">>
    /\ datosReactivos \in DatosNormalizacion
    /\ datosProductoReal = SinProductoReal
    /\ op = ""
    /\ ret = SinLlamada
    /\ EscanerEnReposo
    /\ PaginaCargada

\* const reactivosConMoles = datosReactivos.map(...)
NormalizarReactivos ==
    Llamar("reactivosConMoles", NormalizarDesde(datosReactivos, 1, <<>>))

NextNormalizacion == NormalizarReactivos \/ CalcularEstequiometria

SpecNormalizacion == InitNormalizacion /\ [][NextNormalizacion]_vars

----------------------------------------------------------------------------
(* parsearFormula one loop iteration at a time *)

TextosDePasos == Textos(AlfabetoFormula, MaxFormulaLen - 1) \cup FormulasAnidadas

InitPasos ==
    /\ formula \in TextosDePasos
    /\ ecuacion = <<>>
    /\ datosReactivos = <<>>
    /\ datosProductoReal = SinProductoReal
    /\ op = ""
    /\ ret = SinLlamada
    /\ EscanerEnReposo
    /\ PaginaCargada

\* while (i < formula.length) { ... }: one iteration
IterarFormula ==
    /\ op = ""
    /\ Len(estadoFormula.error) = 0
    /\ estadoFormula.i <= Len(formula)
    /\ estadoFormula' = PasoFormula(formula, estadoFormula)
    /\ vueltas' = vueltas + 1
    /\ UNCHANGED <<Entradas, op, ret, interfaz>>

\* the loop is left: return resultado, or the TypeError escapes
TerminarFormula ==
    /\ op = ""
    /\ Len(estadoFormula.error) > 0 \/ estadoFormula.i > Len(formula)
    /\ op' = "parsearFormula"
    /\ ret' = CorrerFormula(formula, estadoFormula)
    /\ UNCHANGED <<Entradas, escaner, interfaz>>

NextPasos == IterarFormula \/ TerminarFormula

SpecPasos == InitPasos /\ [][NextPasos]_vars

\* the loop runs on its own: a started scan keeps taking steps
SpecPasosJusto == SpecPasos /\ WF_vars(NextPasos)

----------------------------------------------------------------------------
(* The page script.  An event handler runs to completion, so each handler *)
(* is one action, and op names the handler that ran last.  In this part   *)
(* of the model `ecuacion` is the text that handler read from the input   *)
(* (validarEcuacionIngresada), datosReactivos and datosProductoReal are   *)
(* what it collected from the form (realizarCalculos), and ret is the     *)
(* outcome of its calcularEstequiometria call; they are empty for a       *)
(* handler that reads, collects or calls nothing.                         *)

MaxTemporizadores == 2

\* the handler made no call of calcularEstequiometria
NadaCalculado ==
    /\ datosReactivos' = <<>>
    /\ datosProductoReal' = SinProductoReal
    /\ ret' = SinLlamada

\* setTimeout(() => { mensajeEstado.style.display = 'none'; }, 5000)
ProgramarOcultar(tipo) ==
    temporizadores' = IF tipo # "error" THEN temporizadores + 1
                      ELSE temporizadores

mostrarMensaje(mensaje, tipo) ==
    /\ mensajeEstado' = [textContent |-> mensaje, tipo |-> tipo,
                         display |-> "block"]
    /\ ProgramarOcultar(tipo)

MensajeSinEcuacion ==
    [texto |-> "Por favor, ingresa una ecuación química.", detalle |-> <<>>]

NoBalanceado(detalle) == ~detalle.balanceado

\* the heading and one line per element that is not balanced
MensajeBalance(detalles) ==
    [texto |-> "La ecuación NO está balanceada. Por favor, balancéala antes de continuar.",
     detalle |-> SelectSeq(detalles, NoBalanceado)]

MensajeExito ==
    [texto |-> "¡Ecuación válida y balanceada! Ingresa los datos de los reactivos.",
     detalle |-> <<>>]

\* the table written into contenedorResultados: one row per element
mostrarDetallesBalance(detalles) ==
    << [clase |-> "tabla-balance", contenido |-> detalles] >>

\* the cards of the reactants up to the first whose molar mass throws
RECURSIVE TarjetasDesde(_, _, _)
RECURSIVE SeguirTarjetas(_, _, _, _)
TarjetasDesde(reactivos, k, tarjetas) ==
    IF k > Len(reactivos) THEN Return(tarjetas)
    ELSE SeguirTarjetas(reactivos, k, tarjetas,
                        calcularMasaMolar(reactivos[k].formula))

SeguirTarjetas(reactivos, k, tarjetas, masaMolar) ==
    IF masaMolar.tipo = "throw" THEN Throw(tarjetas)
    ELSE TarjetasDesde(reactivos, k + 1,
             Append(tarjetas, [formula |-> reactivos[k].formula,
                               masaMolar |-> masaMolar.valor]))

\* the form: a card per reactant, the product selector, the button
FormularioCon(parseada, tarjetas) ==
    IF tarjetas.tipo = "throw"
    THEN << [tarjetas |-> tarjetas.error, productos |-> <<>>,
             boton |-> FALSE] >>
    ELSE << [tarjetas |-> tarjetas.valor,
             productos |-> [k \in 1..Len(parseada.productos) |->
                               parseada.productos[k].formula],
             boton |-> TRUE] >>

generarFormularioReactivos(parseada) ==
    FormularioCon(parseada, TarjetasDesde(parseada.reactivos, 1, <<>>))

\* the branch after both checks passed
EcuacionAceptada(e, parseada) ==
    /\ temporizadores < MaxTemporizadores
    /\ ecuacionActual' = <<e>>
    /\ ecuacionParseada' = <<parseada>>
    /\ mostrarMensaje(MensajeExito, "exito")
    /\ contenedorReactivos' = generarFormularioReactivos(parseada)
    /\ IF generarFormularioReactivos(parseada)[1].boton
       THEN seccionReactivos' = "block" /\ seccionResultados' = "none"
       ELSE UNCHANGED <<seccionReactivos, seccionResultados>>
    /\ UNCHANGED contenedorResultados

\* the branch of an unbalanced equation: the table is written and shown,
\* then the two sections are hidden
EcuacionNoBalanceada(balance) ==
    /\ mostrarMensaje(MensajeBalance(balance.detalles), "error")
    /\ contenedorResultados' = mostrarDetallesBalance(balance.detalles)
    /\ seccionReactivos' = "none"
    /\ seccionResultados' = "none"
    /\ UNCHANGED <<ecuacionActual, ecuacionParseada, contenedorReactivos>>

EcuacionRechazada(validacion) ==
    /\ mostrarMensaje(validacion.error[1], "error")
    /\ seccionReactivos' = "none"
    /\ seccionResultados' = "none"
    /\ UNCHANGED <<ecuacionActual, ecuacionParseada, contenedorReactivos,
                   contenedorResultados>>

SinEcuacion ==
    /\ mostrarMensaje(MensajeSinEcuacion, "error")
    /\ UNCHANGED <<ecuacionActual, ecuacionParseada, seccionReactivos,
                   contenedorReactivos, seccionResultados,
                   contenedorResultados>>

\* the balance result ignored: every valid equation is accepted
ConBalanceMutado(e, balance) == EcuacionAceptada(e, parsearEcuacion(e).valor)

ConBalance(e, balance) ==
    IF ~balance.balanceada THEN EcuacionNoBalanceada(balance)
    ELSE EcuacionAceptada(e, parsearEcuacion(e).valor)

ConValidacion(e, validacion) ==
    IF ~validacion.valida THEN EcuacionRechazada(validacion)
    ELSE ConBalance(e, verificarBalance(e).valor)

\* the click on boton-validar, or Enter in the input
validarEcuacionIngresada ==
    /\ ecuacion' = trim(inputEcuacion)
    /\ IF Len(trim(inputEcuacion)) = 0 THEN SinEcuacion
       ELSE ConValidacion(trim(inputEcuacion),
                          validarEcuacion(trim(inputEcuacion)).valor)
    /\ op' = "validarEcuacionIngresada"
    /\ NadaCalculado
    /\ UNCHANGED <<formula, escaner, inputEcuacion>>

\* what the fields of one reactant card hold when the button is clicked:
\* the selected kind, parseFloat of the quantity and of the purity
CamposDeReactivo ==
    { [tipo |-> "masa", cantidad |-> Entero(4), pureza |-> NaN],
      [tipo |-> "moles", cantidad |-> Entero(4), pureza |-> Entero(50)],
      [tipo |-> "moles", cantidad |-> NaN, pureza |-> NaN],
      [tipo |-> "moles", cantidad |-> Entero(4), pureza |-> Entero(150)] }

\* the fields of the actual-product block: an option of the selector, and
\* parseFloat of the quantity (NaN for the empty field)
CamposDeProducto(formulario) ==
    { [formula |-> formulario.productos[k], cantidad |-> c] :
          k \in 1..Len(formulario.productos), c \in { NaN, Entero(40) } }

ErrorDeCantidad(f) ==
    Error("Por favor, ingresa una cantidad válida para ", <<f>>)

ErrorDePureza(f) ==
    Error("La pureza debe estar entre 0 y 100% para ", <<f>>)

\* parseFloat(...) || 100
PurezaLeida(campo) == IF EsFalsy(campo.pureza) THEN Entero(Cien) ELSE campo.pureza

DatoLeido(f, campo) ==
    IF campo.tipo = "masa" THEN Dato(f, campo.cantidad, Undefined, PurezaLeida(campo))
    ELSE Dato(f, Undefined, campo.cantidad, PurezaLeida(campo))

\* the forEach over ecuacionParseada.reactivos
RECURSIVE RecopilarDesde(_, _, _, _)
RecopilarDesde(reactivos, campos, k, datos) ==
    IF k > Len(reactivos) THEN Return(datos)
    ELSE IF EsNaN(campos[k].cantidad)
            \/ ~MenorNum(Entero(0), campos[k].cantidad)
    THEN Throw(ErrorDeCantidad(reactivos[k].formula))
    ELSE IF MenorNum(PurezaLeida(campos[k]), Entero(0))
            \/ MenorNum(Entero(Cien), PurezaLeida(campos[k]))
    THEN Throw(ErrorDePureza(reactivos[k].formula))
    ELSE RecopilarDesde(reactivos, campos, k + 1,
             Append(datos, DatoLeido(reactivos[k].formula, campos[k])))

\* the optional actual product: taken when the field parses to more than 0
ProductoLeido(campo) ==
    IF ~EsNaN(campo.cantidad) /\ MenorNum(Entero(0), campo.cantidad)
    THEN ProductoReal(campo.formula, campo.cantidad, Undefined)
    ELSE SinProductoReal

\* seccionResultados is shown and the result cards are written; of the
\* cards the model keeps the summary line, the limiting reagent
mostrarResultados(resultados) ==
    /\ seccionResultados' = "block"
    /\ contenedorResultados'
           = << [clase |-> "resultados-container",
                 contenido |-> resultados.reactivoLimitante.formula] >>

\* catch (error) { mostrarMensaje(error.message, 'error'); }
ErrorAtrapado(error) ==
    /\ mostrarMensaje(Mensaje(error), "error")
    /\ UNCHANGED <<seccionResultados, contenedorResultados>>

ConResultados(datos, d, resultados) ==
    /\ datosReactivos' = datos
    /\ datosProductoReal' = d
    /\ ret' = resultados
    /\ IF resultados.tipo = "throw" THEN ErrorAtrapado(resultados.error)
       ELSE /\ mostrarResultados(resultados.valor)
            /\ UNCHANGED <<mensajeEstado, temporizadores>>

ConDatos(datos, campoProducto) ==
    IF datos.tipo = "throw"
    THEN ErrorAtrapado(datos.error) /\ NadaCalculado
    ELSE ConResultados(datos.valor, ProductoLeido(campoProducto),
             calcularEstequiometria(ecuacionActual[1], datos.valor,
                                    ProductoLeido(campoProducto)))

\* the click on boton-calcular, which exists once the form was generated
\* and can be clicked while seccionReactivos is displayed
realizarCalculos ==
    /\ contenedorReactivos # <<>>
    /\ contenedorReactivos[1].boton
    /\ seccionReactivos = "block"
    /\ \E campos \in [1..Len(contenedorReactivos[1].tarjetas) -> CamposDeReactivo] :
         \E campoProducto \in CamposDeProducto(contenedorReactivos[1]) :
           IF ecuacionParseada = <<>>
           THEN ErrorAtrapado(TypeErrorNull(<<"reactivos">>)) /\ NadaCalculado
           ELSE ConDatos(RecopilarDesde(ecuacionParseada[1].reactivos, campos,
                                        1, <<>>),
                         campoProducto)
    /\ op' = "realizarCalculos"
    /\ ecuacion' = <<>>
    /\ UNCHANGED <<formula, escaner, inputEcuacion, ecuacionActual,
                   ecuacionParseada, seccionReactivos, contenedorReactivos>>

\* a pending timer of mostrarMensaje fires
Temporizador ==
    /\ temporizadores > 0
    /\ temporizadores' = temporizadores - 1
    /\ mensajeEstado' = [mensajeEstado EXCEPT !.display = "none"]
    /\ op' = "temporizador"
    /\ ecuacion' = <<>>
    /\ NadaCalculado
    /\ UNCHANGED <<formula, escaner, inputEcuacion, ecuacionActual,
                   ecuacionParseada, seccionReactivos, contenedorReactivos,
                   seccionResultados, contenedorResultados>>

\* the texts put into the input: blank, valid and balanced (one with outer
\* blanks), valid and unbalanced, with an unknown element
TextosDeEntrada ==
    { <<" ">>,
      <<"2", "H", "2", "+", "O", "2", "-", ">", "2", "H", "2", "O">>,
      <<" ", "H", "2", "=", "H", "2", " ">>,
      <<"H", "2", "+", "O", "2", "-", ">", "H", "2", "O">>,
      <<"X", "2", "-", ">", "X", "2">> }

\* inputEcuacion.value = ecuacion, by an example button or by typing
cargarEjemplo ==
    /\ \E texto \in TextosDeEntrada :
           /\ inputEcuacion # texto
           /\ inputEcuacion' = texto
    /\ op' = "cargarEjemplo"
    /\ ecuacion' = <<>>
    /\ NadaCalculado
    /\ UNCHANGED <<formula, escaner, ecuacionActual, ecuacionParseada,
                   mensajeEstado, temporizadores, seccionReactivos,
                   contenedorReactivos, seccionResultados,
                   contenedorResultados>>

InitPagina ==
    /\ formula = <<>>
    /\ ecuacion = <<>>
    /\ datosReactivos = <<>>
    /\ datosProductoReal = SinProductoReal
    /\ op = ""
    /\ ret = SinLlamada
    /\ EscanerEnReposo
    /\ PaginaCargada

NextPagina ==
    \/ cargarEjemplo
    \/ validarEcuacionIngresada
    \/ realizarCalculos
    \/ Temporizador

SpecPagina == InitPagina /\ [][NextPagina]_vars

----------------------------------------------------------------------------
(* Claims C21 to C28 *)

\* mass / molar mass, the molar mass summed from the table in thousandths
MolesDeLaMasa(dato) ==
    Num(dato.masa.n * 1000,
        dato.masa.d * SumaDeMilesimas(parsearFormula(dato.formula).valor))

\* the moles the claim says are used for a reactant record
MolesEsperados(dato) ==
    IF dato.moles.k # "undef" THEN dato.moles
    ELSE IF dato.masa.k # "undef" THEN MolesDeLaMasa(dato)
    ELSE Undefined

\* the purity the claim says is used: 100 when absent, 0 or NaN
PurezaEsperada(dato) ==
    IF dato.pureza.k = "num" /\ dato.pureza.n # 0 THEN dato.pureza
    ELSE Entero(100)

\* C21: the normalization step uses the supplied moles whenever moles is
\* given, also when the mass is given too, and mass / molar mass only when
\* moles is absent; the purity is the supplied one when it is a non-zero
\* number and 100 when it is absent or falsy (a purity of 0 becomes 100).
\* The limiting reagent of the whole calculation is reported with the moles
\* and purity so chosen.
C21_Normalizacion ==
    /\ op = "reactivosConMoles"
           => /\ ret.tipo = "return"
              /\ Len(ret.valor) = Len(datosReactivos)
              /\ \A k \in 1..Len(datosReactivos) :
                     /\ ret.valor[k].formula = datosReactivos[k].formula
                     /\ ret.valor[k].moles = MolesEsperados(datosReactivos[k])
                     /\ ret.valor[k].pureza = PurezaEsperada(datosReactivos[k])
    /\ (op = "calcularEstequiometria" /\ ret.tipo = "return")
           => \E k \in 1..Len(datosReactivos) :
                  /\ ret.valor.reactivoLimitante.formula
                         = datosReactivos[k].formula
                  /\ ret.valor.reactivoLimitante.molesUsados
                         = Mul(MolesEsperados(datosReactivos[k]),
                               Div(PurezaEsperada(datosReactivos[k]),
                                   Entero(100)))

\* a record with mass and moles both given and purity 0 was normalized to
\* the supplied moles and purity 100
C21_Testigo ==
    /\ op = "reactivosConMoles"
    /\ Len(datosReactivos) > 0
    /\ datosReactivos[1].masa = Entero(4)
    /\ datosReactivos[1].moles = Entero(MaxMoles)
    /\ datosReactivos[1].pureza = Entero(0)
    /\ ret.tipo = "return"
    /\ ret.valor[1].moles = Entero(MaxMoles)
    /\ ret.valor[1].pureza = Entero(100)

\* the "(" among the characters the scan has passed
AbiertosLeidos ==
    Cardinality({ p \in 1..(estadoFormula.i - 1) :
                      p <= Len(formula) /\ formula[p] = "(" })

\* C22: parsearFormula terminates on every input: each iteration of the
\* scanning loop advances the index by at least one character, the number
\* of iterations never exceeds the input length, and the stack is never
\* deeper than one plus the number of "(" read so far.
C22_Terminacion ==
    /\ [][estadoFormula' # estadoFormula
              => estadoFormula'.i >= estadoFormula.i + 1]_vars
    /\ [](/\ vueltas <= Len(formula)
          /\ vueltas <= estadoFormula.i - 1
          /\ Len(estadoFormula.pila) <= 1 + AbiertosLeidos)
    /\ <>(op = "parsearFormula")

\* a scan that took one iteration per character and ended three frames deep
C22_Testigo ==
    /\ op = "parsearFormula"
    /\ ret.tipo = "return"
    /\ vueltas = Len(formula)
    /\ vueltas > 2
    /\ Len(estadoFormula.pila) = 3
    /\ AbiertosLeidos = 2

\* x is a number and x >= 0
NoNegativo(x) == x.k = "num" /\ ~EsNaN(x) /\ ~MenorNum(x, Entero(0))

\* the text is valid and balanced and every written coefficient is positive
BalanceadaYPositiva(e) ==
    /\ validarEcuacion(e).valor.valida
    /\ verificarBalance(e).tipo = "return"
    /\ verificarBalance(e).valor.balanceada
    /\ \A k \in 1..Len(CompuestosDe(parsearEcuacion(e).valor)) :
           CompuestosDe(parsearEcuacion(e).valor)[k].coeficiente > 0

\* every record has moles >= 0 and purity > 0
DatosNoNegativos(datos) ==
    \A k \in 1..Len(datos) :
        /\ NoNegativo(datos[k].moles)
        /\ MenorNum(Entero(0), ANumero(datos[k].pureza))

\* C24: for a valid balanced equation with positive coefficients and
\* reactant records with moles >= 0 and purity > 0, every entry returned by
\* calcularExceso has molesSobrantes >= 0.
C24_SobrantesNoNegativos ==
    (/\ op = "calcularExceso"
     /\ BalanceadaYPositiva(ecuacion)
     /\ DatosNoNegativos(datosReactivos))
        => /\ ret.tipo = "return"
           /\ \A k \in 1..Len(ret.valor) :
                  NoNegativo(ret.valor[k].molesSobrantes)

\* an excess entry with exactly no moles left over was returned for a
\* balanced equation: the two reactants were tied
C24_Testigo ==
    /\ op = "calcularExceso"
    /\ BalanceadaYPositiva(ecuacion)
    /\ DatosNoNegativos(datosReactivos)
    /\ ret.tipo = "return"
    /\ \E k \in 1..Len(ret.valor) :
           /\ ret.valor[k].molesSobrantes = Entero(0)
           /\ MenorNum(Entero(0), ret.valor[k].molesUsados)

\* C28: the formula string returned by parsearCompuesto has no leading or
\* trailing whitespace, so that a term written "2 H2" gives the formula of
\* "2H2" and is found under it when reactants are looked up by formula.
C28_FormulaRecortada ==
    (op = "parsearCompuesto" /\ ret.tipo = "return")
        => ret.valor.formula = trim(ret.valor.formula)

\* the text passes validarEcuacion and verificarBalance
ValidaYBalanceada(e) ==
    /\ validarEcuacion(e).valor.valida
    /\ verificarBalance(e).tipo = "return"
    /\ verificarBalance(e).valor.balanceada

\* C23: when the entered equation passes validation but is not balanced,
\* validarEcuacionIngresada ends with the balance table displayed: the
\* results section is visible and holds the table of
\* mostrarDetallesBalance.
C23_TablaDeBalanceVisible ==
    (/\ op = "validarEcuacionIngresada"
     /\ Len(ecuacion) > 0
     /\ validarEcuacion(ecuacion).valor.valida
     /\ ~ValidaYBalanceada(ecuacion))
        => /\ seccionResultados = "block"
           /\ contenedorResultados
                  = mostrarDetallesBalance(
                        verificarBalance(ecuacion).valor.detalles)

\* C25: the stored ecuacionActual / ecuacionParseada is null, or a text
\* that passed validarEcuacion and verificarBalance together with its
\* parse; the generated form has the reactants and products of
\* ecuacionParseada; and every calcularEstequiometria call made from the
\* form is made with that valid, balanced text.
C25_EstadoValido ==
    /\ \/ ecuacionActual = <<>> /\ ecuacionParseada = <<>>
       \/ /\ ecuacionActual # <<>>
          /\ ValidaYBalanceada(ecuacionActual[1])
          /\ ecuacionParseada = <<parsearEcuacion(ecuacionActual[1]).valor>>
    /\ contenedorReactivos # <<>>
           => /\ ecuacionParseada # <<>>
              /\ contenedorReactivos[1].boton
              /\ Len(contenedorReactivos[1].tarjetas)
                     = Len(ecuacionParseada[1].reactivos)
              /\ \A k \in 1..Len(contenedorReactivos[1].tarjetas) :
                     contenedorReactivos[1].tarjetas[k].formula
                         = ecuacionParseada[1].reactivos[k].formula
              /\ contenedorReactivos[1].productos
                     = [k \in 1..Len(ecuacionParseada[1].productos) |->
                           ecuacionParseada[1].productos[k].formula]
    /\ (op = "realizarCalculos" /\ ret # SinLlamada)
           => /\ ecuacionActual # <<>>
              /\ ret = calcularEstequiometria(ecuacionActual[1],
                                              datosReactivos,
                                              datosProductoReal)
              /\ ret.tipo = "throw"
                     => /\ ret.error # ErrorNoBalanceada
                        /\ ret # ErrorDeValidacion(
                                   validarEcuacion(ecuacionActual[1]).valor)

\* a calculation returned for the stored equation while the input held a
\* blank text that had been submitted after it
C25_Testigo ==
    /\ op = "realizarCalculos"
    /\ ret.tipo = "return"
    /\ inputEcuacion = <<" ">>
    /\ mensajeEstado.textContent = MensajeSinEcuacion
    /\ Len(datosReactivos) = 2

\* C26: an error message shown by mostrarMensaje stays displayed until
\* another message replaces it: no step hides a displayed error message.
C26_ErrorPermanece ==
    [][(mensajeEstado.tipo = "error" /\ mensajeEstado.display = "block")
           => mensajeEstado'.display = "block"]_vars

\* the latest validation attempt succeeded
ValidacionExitosa == Len(ecuacion) > 0 /\ ValidaYBalanceada(ecuacion)

\* C27: after every validation attempt that does not succeed (empty input,
\* invalid equation or unbalanced equation) the reactant section is hidden.
C27_ReactivosOcultos ==
    (op = "validarEcuacionIngresada" /\ ~ValidacionExitosa)
        => seccionReactivos = "none"

============================================================================
